---- MODULE Spec2Model ----
(***************************************************************************)
(* Model of the Lua plugin runtime of helix: LuaEngine (helix-plugin/src/  *)
(* lua/mod.rs), its three registries, the thread-local editor binding, the *)
(* UI request API (lua/api/ui.rs) and the host side of the UI bridge       *)
(* (helix-term/src/plugin_registry.rs).                                    *)
(*                                                                         *)
(* One host thread drives the engine.  A dispatch that enters script code  *)
(* is a frame on `stack`; the script running in the top frame performs API *)
(* calls one step at a time and finally returns or raises.  Script code is *)
(* opaque: which calls it makes is a nondeterministic choice.              *)
(***************************************************************************)
EXTENDS Integers, Sequences, FiniteSets, TLC

\* ---------------------------------------------------------------- bounds
MaxRegs == 2      \* subscriptions and commands since the last reset, plus UI ids issued
MaxDepth == 2     \* frames on the dispatch stack (1 = no nested dispatch)

\* ---------------------------------------------------------------- values
PluginNames == {"p1", "p2"}
Unknown == "unknown"          \* tag used when _current_plugin_name is nil
Nil == "nil"                  \* Lua nil / Rust None
PluginTags == PluginNames \cup {Unknown}
Editor == "editor"            \* the host's Editor object
CmdNames == {"c1", "c2"}      \* command names the host executes
RegNames == {"c1"}            \* command names scripts register
\* The doc string plugin p gives the commands it registers.
DocOf(p) == IF p = "p1" THEN "d1" ELSE "d2"
UiKinds == {"prompt", "confirm", "picker"}
Missing == "missing"          \* an absent table field in a script call
\* Argument vectors the host passes to execute_command.
NoArgs == <<>>
ArgLists == {NoArgs, <<"a">>}

\* A Lua function value: the closure `fn` defined by the code of plugin `owner`.
Funcs == [owner : PluginNames, fn : {"f"}]
FuncsOf(p) == {f \in Funcs : f.owner = p}
MainChunk(p) == [owner |-> p, fn |-> "main"]
NoFunc == [owner |-> Nil, fn |-> Nil]   \* a table field that holds no function

\* ------------------------------------------------------------ EventType
EventTypes ==
    {"OnInit", "OnReady", "OnBufferOpen", "OnBufferPreSave", "OnBufferPostSave",
     "OnBufferClose", "OnBufferChanged", "OnModeChange", "OnKeyPress",
     "OnLspAttach", "OnLspDiagnostic", "OnLspInitialized", "OnSelectionChange",
     "OnViewChange"}

\* A name taken from the variant's Debug form.
as_str_debug(t) == t

as_str(t) ==
    CASE t = "OnInit" -> "init"
      [] t = "OnReady" -> "ready"
      [] t = "OnBufferOpen" -> "buffer_open"
      [] t = "OnBufferPreSave" -> "buffer_pre_save"
      [] t = "OnBufferPostSave" -> "buffer_post_save"
      [] t = "OnBufferClose" -> "buffer_close"
      [] t = "OnBufferChanged" -> "buffer_changed"
      [] t = "OnModeChange" -> "mode_change"
      [] t = "OnKeyPress" -> "key_press"
      [] t = "OnLspAttach" -> "lsp_attach"
      [] t = "OnLspDiagnostic" -> "lsp_diagnostic"
      [] t = "OnLspInitialized" -> "lsp_initialized"
      [] t = "OnSelectionChange" -> "selection_change"
      [] t = "OnViewChange" -> "view_change"

\* Err(()) is Nil.
from_str(s) ==
    CASE s = "init" -> "OnInit"
      [] s = "ready" -> "OnReady"
      [] s = "buffer_open" -> "OnBufferOpen"
      [] s = "buffer_pre_save" -> "OnBufferPreSave"
      [] s = "buffer_post_save" -> "OnBufferPostSave"
      [] s = "buffer_close" -> "OnBufferClose"
      [] s = "buffer_changed" -> "OnBufferChanged"
      [] s = "mode_change" -> "OnModeChange"
      [] s = "key_press" -> "OnKeyPress"
      [] s = "lsp_attach" -> "OnLspAttach"
      [] s = "lsp_diagnostic" -> "OnLspDiagnostic"
      [] s = "lsp_initialized" -> "OnLspInitialized"
      [] s = "selection_change" -> "OnSelectionChange"
      [] s = "view_change" -> "OnViewChange"
      [] OTHER -> Nil

\* Event names scripts pass to helix.on, and event types the host fires.
ScriptEventNames == {"init", "buffer_open", "no_such_event"}
FiredTypes == {"OnInit", "OnBufferOpen"}

\* ------------------------------------------------------------ EventData
NoData == [kind |-> "None"]
DocumentIds == {1, 2}
Paths == {"/a"}
\* EventData values the host attaches to an event of each type.
EventDataOf(t) ==
    CASE t \in {"OnBufferOpen", "OnBufferPreSave", "OnBufferPostSave", "OnBufferClose",
                "OnBufferChanged"} ->
            {[kind |-> "Buffer", document_id |-> d, path |-> p] :
                d \in DocumentIds, p \in Paths \cup {Nil}}
      [] t = "OnModeChange" ->
            {[kind |-> "ModeChange", old_mode |-> "normal", new_mode |-> m] :
                m \in {"insert", "select"}}
      [] t = "OnKeyPress" -> {[kind |-> "KeyPress", key |-> k] : k \in {"x", "y"}}
      [] t = "OnLspAttach" ->
            {[kind |-> "LspAttach", document_id |-> d, language_server_id |-> 7] :
                d \in DocumentIds}
      [] t = "OnLspDiagnostic" ->
            {[kind |-> "LspDiagnostic", document_id |-> d, diagnostic_count |-> n] :
                d \in DocumentIds, n \in {0, 3}}
      [] OTHER -> {NoData}

\* format!("{:?}", document_id): the Debug form of the id, a string.
DebugFormat(document_id) == <<"DocumentId(", document_id, ")">>

\* A payload that names the variant instead of the event.
PayloadTypeDebug(event_type) == event_type
\* event_data.set("type", event.event_type.as_str())
PayloadType(event_type) == as_str(event_type)

\* The table call_event_handlers builds for one handler: `type`, then the
\* fields of the data's variant; a path of None sets no field, LspAttach and
\* None add nothing.
EventPayload(event_type, data) ==
    LET type == PayloadType(event_type) IN
    CASE data.kind = "Buffer" ->
            IF data.path = Nil
            THEN [type |-> type, document_id |-> DebugFormat(data.document_id)]
            ELSE [type |-> type, document_id |-> DebugFormat(data.document_id),
                  path |-> data.path]
      [] data.kind = "ModeChange" ->
            [type |-> type, old_mode |-> data.old_mode, new_mode |-> data.new_mode]
      [] data.kind = "KeyPress" -> [type |-> type, key |-> data.key]
      [] data.kind = "LspDiagnostic" ->
            [type |-> type, document_id |-> DebugFormat(data.document_id),
             diagnostic_count |-> data.diagnostic_count]
      [] OTHER -> [type |-> type]

\* ------------------------------------------------------------ PluginError
Ok == [kind |-> "Ok", plugin |-> Nil]
Err(k) == [kind |-> k, plugin |-> Nil]
EventHandlerError(p) == [kind |-> "EventHandlerError", plugin |-> p]

\* ---------------------------------------------------------------- state
VARIABLES
    event_handlers,       \* LuaEngine.event_handlers: EventType -> Vec<(plugin_name, callback)>
    commands,             \* LuaEngine.commands: the entries of the map name -> (metadata, callback)
    ui_callbacks,         \* LuaEngine.ui_callbacks: the entries of the map (plugin_name, id) -> callback
    next_ui_callback_id,  \* LuaEngine.next_ui_callback_id
    plugins,              \* LuaEngine.plugins: the descriptors in the map name -> Plugin
    ui_handler,           \* LuaEngine.ui_handler is Some
    lua,                  \* the interpreter: helix table, app data, _current_plugin_name
    CURRENT_EDITOR,       \* the thread-local editor binding
    stack,                \* dispatches in progress on the host thread, outermost first
    blocked,              \* the lock the host thread waits on forever, or Nil
    ui_requests,          \* UiRequest messages sent on TermUiHandler's channel (cb: history)
    subs,                 \* history: accepted helix.on calls since the last reset, in time order
    cmd_regs,             \* history: accepted helix.register_command calls since the last reset
    ui_fired,             \* history: UI callback keys whose callback was invoked, with counts
    ui_failed,            \* history: UI callback keys whose delivery did not convert or raised
    last,                 \* history: the dispatch call that returned most recently
    init,                 \* PluginManager: its configuration and the progress of initialize()
    term                  \* helix-term: the documents, the blame handler and its channel

vars == <<event_handlers, commands, ui_callbacks, next_ui_callback_id, plugins,
          ui_handler, lua, CURRENT_EDITOR, stack, blocked,
          ui_requests, subs, cmd_regs, ui_fired, ui_failed, last, init, term>>

registries == <<event_handlers, commands, ui_callbacks>>
\* What no operation of the engine writes: the host's capabilities and the
\* plugin manager's own state.
config == <<ui_handler, init, term>>
history == <<subs, cmd_regs, ui_fired, ui_failed>>

\* Lua::new() followed by the sandbox chunk: no helix table, no app data.
NewLua == [helix |-> FALSE, ui_handler |-> FALSE,
           current_plugin_name |-> Nil]

\* PluginManager::new(): initialize() has not been called.
NotInitialized == [phase |-> "new", cfg |-> <<>>, discovered |-> <<>>, pos |-> 1,
                   attempts |-> <<>>, fired |-> 0, result |-> Ok,
                   fs |-> <<>>, found |-> <<>>]

\* BlameHandler::default(): nothing pending (doc_id 0 stands for DocumentId::default()).
NoBlameRequest == [pending_path |-> Nil, doc_id |-> 0, line |-> Nil]
\* A document id the editor has not handed out yet.
NoDocument == [state |-> "unopened", path |-> Nil, file_blame |-> Nil]
\* The editor at start: no document, inline-blame auto-fetch off, the blame
\* handler idle.  `requested` (the documents the last enabling of auto-fetch
\* requested blame for) is history.
TermInit == [auto_fetch |-> FALSE,
             docs |-> [d \in DocumentIds |-> NoDocument],
             channel |-> <<>>,
             handler |-> NoBlameRequest,
             deadline |-> FALSE,
             jobs |-> <<>>,
             status |-> Nil,
             requested |-> {},
             view |-> [annots |-> <<>>, set |-> FALSE, col |-> 0, width |-> 0,
                       reserved |-> [done |-> FALSE, rows |-> 0, drop_all |-> FALSE,
                                     row_idx |-> <<>>, overflow |-> FALSE],
                       drawn |-> [done |-> FALSE, rows |-> 0, drop_all |-> FALSE,
                                  row_idx |-> <<>>, overflow |-> FALSE]]]

NoCall == [op |-> Nil, arg |-> Nil, result |-> Ok, invoked |-> <<>>, raised |-> FALSE]

\* LuaEngine::new(), after which the host has installed its capabilities: the
\* command registry always (set_builtin_command_registry), a UI handler if it
\* has one (set_ui_handler).
Init ==
    /\ event_handlers = [t \in EventTypes |-> <<>>]
    /\ commands = {}
    /\ ui_callbacks = {}
    /\ next_ui_callback_id = 1
    /\ plugins = {}
    /\ ui_handler \in BOOLEAN
    /\ lua = NewLua
    /\ CURRENT_EDITOR = Nil
    /\ stack = <<>>
    /\ blocked = Nil
    /\ ui_requests = {}
    /\ subs = <<>>
    /\ cmd_regs = <<>>
    /\ ui_fired = {}
    /\ ui_failed = {}
    /\ last = NoCall
    /\ init = NotInitialized
    /\ term = TermInit

\* ------------------------------------------------------ the dispatch stack
Top == stack[Len(stack)]
Below == SubSeq(stack, 1, Len(stack) - 1)
\* No call is returning its result at this moment and the thread is not stuck.
Ready == blocked = Nil /\ last = NoCall
Idle == stack = <<>> /\ Ready
\* The script of the top frame is running and can make one more API call.
CanCall ==
    /\ stack # <<>>
    /\ Ready
    /\ lua.helix
\* Another subscription or command fits the bound of the model; a UI request
\* fits while at most MaxRegs ids have been issued with the rest.
RegistryRoom == Len(subs) + Len(cmd_regs) + (next_ui_callback_id - 1) < MaxRegs
UiRoom == Len(subs) + Len(cmd_regs) + (next_ui_callback_id - 1) <= MaxRegs

\* types::Plugin, the descriptor load_plugin is given: its name and its directory.
Plugin(name, path) == [name |-> name, path |-> path]
\* The frame of a dispatch carries no descriptor.
NoPlugin == Plugin(Nil, Nil)
\* The keys of the resident table.
ResidentNames == {p.name : p \in plugins}

\* No editor-dependent API function was called by the running callback yet.
NoApi == [fn |-> Nil, bound |-> FALSE, outcome |-> Nil]

\* `invoked` (the callbacks this dispatch has entered), `raised` (one of
\* them raised), `api`, `rejected` (the event name helix.on refused to the
\* running callback) and `payloads` (the table each entered handler of the
\* dispatch was called with) are history.
Frame(op, arg, ed, idx, entry, invoked, raised) ==
    [op |-> op, arg |-> arg, editor |-> ed, idx |-> idx, cb |-> entry.cb,
     tag |-> entry.plugin, invoked |-> invoked, raised |-> raised,
     args |-> NoArgs, params |-> NoArgs, api |-> NoApi, rejected |-> Nil,
     data |-> NoData, payloads |-> <<>>, plugin |-> NoPlugin]

InProgress(op) == \E i \in 1..Len(stack) : stack[i].op = op
\* parking_lot guards held by the frames of the stack: call_event_handlers
\* keeps event_handlers.read(), execute_command keeps commands.read() and
\* handle_ui_callback keeps ui_callbacks.write() while the callback runs.
EventHandlersLocked == InProgress("fire_event")
CommandsLocked == InProgress("execute_command")
UiCallbacksLocked == InProgress("handle_ui_callback")

\* A dispatch call returns `result` to its caller, whose stack is `s`.
Finish(s, op, arg, result, invoked, raised) ==
    /\ stack' = s
    /\ last' = [op |-> op, arg |-> arg, result |-> result, invoked |-> invoked,
                raised |-> raised]

\* ---------------------------------------------------- with_editor_context
ContextOnEntry(editor) == editor
\* A binding that is released on the normal path only.
ContextOnExitOkOnly(editor, raised) == IF raised THEN editor ELSE Nil
\* *cell.borrow_mut() = None, whatever f returned
ContextOnExit(editor, raised) == Nil
\* get_editor_mut() is Ok
HasEditorContext == CURRENT_EDITOR # Nil

\* lua.globals().get::<String>("_current_plugin_name").unwrap_or("unknown")
CurrentPluginName ==
    IF lua.current_plugin_name = Nil THEN Unknown ELSE lua.current_plugin_name

\* ------------------------------------------------------------- registries
\* A subscription list that grows at the front.
PushHandlerFront(handlers, event_type, entry) ==
    [handlers EXCEPT ![event_type] = <<entry>> \o @]

\* handlers.entry(event_type).or_default().push((plugin_name, callback_ref))
PushHandler(handlers, event_type, entry) ==
    [handlers EXCEPT ![event_type] = Append(@, entry)]

\* A registration that leaves an existing entry of the same name alone.
InsertCommandFirstWins(cmds, name, entry) ==
    IF \E e \in cmds : e.name = name THEN cmds ELSE cmds \cup {entry}

\* commands.write().insert(name, (meta, callback_ref))
InsertCommand(cmds, name, entry) ==
    {e \in cmds : e.name # name} \cup {entry}

\* commands.get(name)
GetCommand(cmds, name) == {e \in cmds : e.name = name}

\* get_commands(): one CommandMetadata per entry, in no particular order
get_commands == [e \in commands |-> [name |-> e.name, doc |-> e.doc]]

UiKey(plugin, id) == [plugin |-> plugin, id |-> id]
\* A pair no request was ever made under: the counter starts at 1.
NeverIssued == UiKey(Unknown, 0)
\* callback_reg.write().insert((plugin_name, callback_id), callback_ref)
InsertUiCallback(cbs, key, cb) ==
    {e \in cbs : e.key # key} \cup {[key |-> key, cb |-> cb]}
\* callbacks.remove(&(plugin_name, callback_id)): the entry taken out, if any
LookupUiCallback(cbs, key) == {e \in cbs : e.key = key}
\* A lookup that leaves the entry in the registry.
RemoveUiCallbackKeep(cbs, key) == cbs
RemoveUiCallback(cbs, key) == {e \in cbs : e.key # key}

FiredCount(key) ==
    IF \E r \in ui_fired : r.key = key
    THEN (CHOOSE r \in ui_fired : r.key = key).n
    ELSE 0
RecordFired(key) ==
    {r \in ui_fired : r.key # key} \cup {[key |-> key, n |-> FiredCount(key) + 1]}

\* ------------------------------------------------- LuaEngine configuration
\* Publishes the helix table and copies the host capabilities that are set
\* into the interpreter's app data.
register_api ==
    /\ Idle
    /\ lua' = [lua EXCEPT !.helix = TRUE,
                          !.ui_handler = @ \/ ui_handler]
    /\ lua' # lua
    /\ UNCHANGED <<registries, next_ui_callback_id, plugins, config,
                   CURRENT_EDITOR, stack, blocked, ui_requests, history>>
    /\ last' = NoCall

\* A reset that starts the ids over.
CounterRestart(counter) == 1

\* The id counter after reset(): reset() does not touch next_ui_callback_id.
CounterAfterReset(counter) == counter

\* A reset that leaves the subscriptions in place.
ClearHandlersNone(handlers) == handlers
\* self.event_handlers.write().clear()
ClearHandlers(handlers) == [t \in EventTypes |-> <<>>]

reset ==
    /\ Idle
    /\ lua' = NewLua
    /\ event_handlers' = ClearHandlers(event_handlers)
    /\ commands' = {}
    /\ plugins' = {}
    /\ ui_callbacks' = {}
    /\ next_ui_callback_id' = CounterAfterReset(next_ui_callback_id)
    /\ subs' = <<>>
    /\ cmd_regs' = <<>>
    /\ UNCHANGED <<config, CURRENT_EDITOR, stack, blocked, ui_requests, ui_fired,
                   ui_failed>>
    /\ last' = NoCall

\* ----------------------------------------------------------------- dispatch
\* A dispatch that goes on to the remaining handlers after a failure.
AfterHandlerContinue(raised, idx, n) ==
    IF idx < n THEN "next" ELSE IF raised THEN "error" ELSE "done"

\* What call_event_handlers does after the handler at `idx` of `n` returned:
\* "error" (return EventHandlerError), "next" (invoke idx + 1) or "done".
AfterHandler(raised, idx, n) ==
    IF raised THEN "error" ELSE IF idx < n THEN "next" ELSE "done"

\* call_event_handlers, entered by a caller whose stack is `s`.
call_event_handlers(s, editor, event_type, data) ==
    LET callbacks == event_handlers[event_type] IN
    /\ IF callbacks = <<>>
       THEN /\ Finish(s, "fire_event", event_type, Ok, <<>>, FALSE)
            /\ UNCHANGED CURRENT_EDITOR
       ELSE /\ stack' = Append(s, [Frame("fire_event", event_type, editor, 1,
                                         callbacks[1], <<callbacks[1]>>, FALSE)
                                   EXCEPT !.data = data,
                                          !.payloads = <<EventPayload(event_type, data)>>])
            /\ CURRENT_EDITOR' = ContextOnEntry(editor)
            /\ last' = NoCall
    /\ UNCHANGED <<registries, next_ui_callback_id, plugins, config, lua, blocked,
                   ui_requests, history>>

\* An unknown name treated as a no-op.
CommandNotFoundOk(name) == Ok

\* The result of execute_command for a name that has no entry.
CommandNotFound(name) == Err("CommandExecutionFailed")

\* A handler call that drops the arguments.
CallArgsNone(args) == NoArgs
\* callback.call::<()>(args): the values handed to the interpreter for the call
CallArgs(args) == args

\* A handler failure passed on unwrapped.
CommandResultUnwrapped(raised) == IF raised THEN Err("LuaError") ELSE Ok
\* The result of execute_command once the handler returned or raised.
CommandResult(raised) == IF raised THEN Err("CommandExecutionFailed") ELSE Ok

\* LuaEngine::execute_command, entered by a caller whose stack is `s`; `args`
\* (the vector given) and `params` (what the handler is called with) are kept
\* in the frame.
execute_command(s, editor, name, args) ==
    /\ IF GetCommand(commands, name) = {}
       THEN /\ Finish(s, "execute_command", name, CommandNotFound(name), <<>>, FALSE)
            /\ UNCHANGED CURRENT_EDITOR
       ELSE \E e \in GetCommand(commands, name) :
            LET entry == [plugin |-> Nil, cb |-> e.cb] IN
            /\ stack' = Append(s, [Frame("execute_command", name, editor, 1,
                                         entry, <<entry>>, FALSE)
                                   EXCEPT !.args = args, !.params = CallArgs(args)])
            /\ CURRENT_EDITOR' = ContextOnEntry(editor)
            /\ last' = NoCall
    /\ UNCHANGED <<registries, next_ui_callback_id, plugins, config, lua, blocked,
                   ui_requests, history>>

\* PluginManager::fire_event called by the host.
FireEvent(event_type, data) ==
    /\ Idle
    /\ call_event_handlers(stack, Editor, event_type, data)

\* PluginManager::execute_command called by the host.
ExecuteCommand(name, args) ==
    /\ Idle
    /\ execute_command(stack, Editor, name, args)

\* An unknown pair reported as an error.
UiCallbackAbsentError(key) == Err("LuaError")

\* The result of handle_ui_callback when (plugin_name, callback_id) has no entry.
UiCallbackAbsent(key) == Ok

\* A failed conversion of the value that is reported as success.
ConversionFailureOk == Ok
\* self.lua.to_value(&value).map_err(PluginError::LuaError)?
ConversionFailure == Err("LuaError")

\* An error raised by the callback that is swallowed.
UiCallbackResultOk(raised) == Ok
\* callback.call::<()>(lua_value).map_err(PluginError::LuaError)
UiCallbackResult(raised) == IF raised THEN Err("LuaError") ELSE Ok

\* PluginManager::handle_ui_callback called by the host's event loop;
\* `convertible` is whether the value the host delivers converts to a Lua value.
HandleUiCallback(plugin_name, callback_id, convertible) ==
    LET key == UiKey(plugin_name, callback_id) IN
    /\ Idle
    /\ IF LookupUiCallback(ui_callbacks, key) = {}
       THEN /\ Finish(stack, "handle_ui_callback", key, UiCallbackAbsent(key), <<>>, FALSE)
            /\ UNCHANGED <<ui_callbacks, CURRENT_EDITOR, ui_fired, ui_failed>>
       ELSE IF ~convertible
       THEN \* the entry is out of the map, the `?` returns before the binding
            /\ ui_callbacks' = RemoveUiCallback(ui_callbacks, key)
            /\ Finish(stack, "handle_ui_callback", key, ConversionFailure, <<>>, FALSE)
            /\ ui_failed' = ui_failed \cup {key}
            /\ UNCHANGED <<CURRENT_EDITOR, ui_fired>>
       ELSE \E e \in LookupUiCallback(ui_callbacks, key) :
            LET entry == [plugin |-> Nil, cb |-> e.cb] IN
            /\ ui_callbacks' = RemoveUiCallback(ui_callbacks, key)
            /\ stack' = Append(stack, Frame("handle_ui_callback", key, Editor, 1,
                                            entry, <<entry>>, FALSE))
            /\ CURRENT_EDITOR' = ContextOnEntry(Editor)
            /\ ui_fired' = RecordFired(key)
            /\ UNCHANGED ui_failed
            /\ last' = NoCall
    /\ UNCHANGED <<event_handlers, commands, next_ui_callback_id, plugins, config,
                   lua, blocked, ui_requests, subs, cmd_regs>>

\* LuaEngine::load_plugin up to the start of the entry script.
load_plugin(plugin, entry_exists) ==
    LET name == plugin.name IN
    /\ Idle
    /\ IF ~entry_exists
       THEN /\ Finish(stack, "load_plugin", name, Err("InvalidPluginStructure"), <<>>, FALSE)
            /\ UNCHANGED lua
       ELSE LET entry == [plugin |-> Nil, cb |-> MainChunk(name)] IN
            /\ lua' = [lua EXCEPT !.current_plugin_name = name]
            /\ stack' = Append(stack,
                  [Frame("load_plugin", name, Nil, 1, entry, <<>>, FALSE)
                   EXCEPT !.plugin = plugin])
            /\ last' = NoCall
    /\ UNCHANGED <<registries, next_ui_callback_id, plugins, config, CURRENT_EDITOR,
                   blocked, ui_requests, history>>

\* The host loads the plugin `name` from the directory of that name.
LoadPlugin(name, entry_exists) == load_plugin(Plugin(name, name), entry_exists)

\* ------------------------------------------------ API calls made by scripts
\* helix.on(event_name, callback)
CallOn(event_name, callback) ==
    /\ CanCall
    /\ callback \in FuncsOf(Top.cb.owner)
    /\ RegistryRoom
    /\ LET event_type == from_str(event_name)
           entry == [plugin |-> CurrentPluginName, cb |-> callback]
       IN  IF event_type = Nil
           THEN \* "Invalid event type": a Lua error is raised in the script
                /\ stack' = [stack EXCEPT ![Len(stack)].rejected = event_name]
                /\ UNCHANGED <<event_handlers, subs, blocked>>
           ELSE IF EventHandlersLocked
           THEN \* event_handlers.write() under this thread's own read guard
                /\ blocked' = "event_handlers"
                /\ UNCHANGED <<event_handlers, subs, stack>>
           ELSE /\ event_handlers' = PushHandler(event_handlers, event_type, entry)
                /\ subs' = Append(subs, [event_type |-> event_type,
                                         plugin |-> entry.plugin, cb |-> callback])
                /\ UNCHANGED stack
                /\ UNCHANGED blocked
    /\ UNCHANGED <<commands, ui_callbacks, next_ui_callback_id, plugins, config, lua,
                   CURRENT_EDITOR, ui_requests, cmd_regs, ui_fired, ui_failed>>
    /\ last' = NoCall

\* A table check that lets a table without handler through.
RegisterOutcomeNameOnly(name, handler) ==
    IF name = Missing THEN "Command name required" ELSE "done"
\* What helix.register_command gives the script: table.get("name") and
\* table.get("handler") each raise a RuntimeError when the field is absent.
RegisterOutcome(name, handler) ==
    IF name = Missing THEN "Command name required"
    ELSE IF handler = NoFunc THEN "Command handler function required"
    ELSE "done"

\* The body of helix.register_command({name = .., doc = .., handler = ..}).
register_command(name, handler) ==
    /\ CanCall
    /\ handler \in FuncsOf(Top.cb.owner) \cup {NoFunc}
    /\ RegistryRoom
    /\ IF RegisterOutcome(name, handler) # "done"
       THEN \* the error is raised before the registry is locked
            UNCHANGED <<commands, cmd_regs, blocked>>
       ELSE IF CommandsLocked
       THEN \* commands.write() under this thread's own read guard
            /\ blocked' = "commands"
            /\ UNCHANGED <<commands, cmd_regs>>
       ELSE LET entry == [name |-> name, doc |-> DocOf(Top.cb.owner), cb |-> handler] IN
            /\ commands' = InsertCommand(commands, name, entry)
            /\ cmd_regs' = Append(cmd_regs, entry)
            /\ UNCHANGED blocked
    /\ UNCHANGED <<event_handlers, ui_callbacks, next_ui_callback_id, plugins, config,
                   lua, CURRENT_EDITOR, ui_requests, subs, ui_fired, ui_failed>>
    /\ last' = NoCall

\* helix.register_command({name = .., doc = .., handler = ..})
CallRegisterCommand(name, handler) ==
    /\ register_command(name, handler)
    /\ UNCHANGED stack

\* The same call, with what it gave the script kept with the callback's
\* frame (history).
CallRegisterCommandNoted(name, handler) ==
    /\ register_command(name, handler)
    /\ stack' = [stack EXCEPT ![Len(stack)].api =
                    [fn |-> "register_command", bound |-> HasEditorContext,
                     outcome |-> RegisterOutcome(name, handler)]]

\* TermUiHandler::prompt / confirm / picker: the request goes on the channel.
SendUiRequest(requests, kind, plugin_name, callback_id, callback) ==
    requests \cup {[plugin |-> plugin_name, id |-> callback_id, cb |-> callback]}

\* A UI request that is dropped only when the editor binding is missing.
UiRequestDroppedUnboundOnly(bound, handler) == ~bound
\* get_editor_mut() is Err, or app_data_ref::<UiHandlerWrapper>() is None:
\* return Ok(()) before anything is allocated.
UiRequestDropped(bound, handler) == ~bound \/ ~handler

\* What a UI request gives the script.
UiOutcome(kind, callback) ==
    IF UiRequestDropped(HasEditorContext, lua.ui_handler) THEN "silent_ok"
    ELSE IF callback = NoFunc THEN "RuntimeError"   \* "on_select callback required"
    ELSE "done"

\* The body of helix.ui.prompt / helix.ui.confirm / helix.ui.picker.
ui_request(kind, callback) ==
    /\ CanCall
    /\ callback \in FuncsOf(Top.cb.owner) \cup (IF kind = "picker" THEN {NoFunc} ELSE {})
    /\ UiRoom
    /\ IF UiOutcome(kind, callback) # "done"
       THEN UNCHANGED <<ui_callbacks, next_ui_callback_id, ui_requests, blocked>>
       ELSE LET callback_id == next_ui_callback_id
                plugin_name == CurrentPluginName
            IN  /\ next_ui_callback_id' = callback_id + 1
                /\ IF UiCallbacksLocked
                   THEN \* ui_callbacks.write() under this thread's own write guard
                        /\ blocked' = "ui_callbacks"
                        /\ UNCHANGED <<ui_callbacks, ui_requests>>
                   ELSE /\ ui_callbacks' = InsertUiCallback(
                                ui_callbacks, UiKey(plugin_name, callback_id), callback)
                        /\ ui_requests' = SendUiRequest(
                                ui_requests, kind, plugin_name, callback_id, callback)
                        /\ UNCHANGED blocked
    /\ UNCHANGED <<event_handlers, commands, plugins, config, lua, CURRENT_EDITOR,
                   history>>
    /\ last' = NoCall

\* helix.ui.prompt / helix.ui.confirm / helix.ui.picker
CallUiRequest(kind, callback) ==
    /\ ui_request(kind, callback)
    /\ UNCHANGED stack

\* The same call, with what it gave the script kept with the callback's
\* frame (history).
CallUiRequestNoted(kind, callback) ==
    /\ ui_request(kind, callback)
    /\ stack' = [stack EXCEPT ![Len(stack)].api =
                    [fn |-> kind, bound |-> HasEditorContext,
                     outcome |-> UiOutcome(kind, callback)]]

\* helix.editor.execute_command(cmd, args) where the host command neither
\* enters the plugin system again nor is reachable (no binding, no registry).
CallHostCommand ==
    /\ CanCall
    /\ UNCHANGED stack
    /\ UNCHANGED <<registries, next_ui_callback_id, plugins, config, lua,
                   CURRENT_EDITOR, blocked, ui_requests, history>>
    /\ last' = NoCall

\* helix.editor.execute_command(cmd, args) where the host command fires an
\* event before it returns.
CallHostCommandFiringEvent(event_type) ==
    /\ CanCall
    /\ Len(stack) < MaxDepth
    /\ HasEditorContext
    /\ call_event_handlers(stack, CURRENT_EDITOR, event_type, NoData)

\* helix.editor.execute_command(cmd, args) where the host command runs a
\* plugin command before it returns.
CallHostCommandExecuting(name) ==
    /\ CanCall
    /\ Len(stack) < MaxDepth
    /\ HasEditorContext
    /\ execute_command(stack, CURRENT_EDITOR, name, NoArgs)

\* Editor-dependent functions of the helix table, one of each way of meeting
\* a missing binding: helix.editor.mode, helix.ui.notify, helix.editor.get_cursor.
ApiFunctions == {"editor.mode", "ui.notify", "editor.get_cursor"}

\* What the function gives the script, by get_editor_mut()'s answer:
\*   editor.mode        if let Ok(editor) .. else Ok("normal")
\*   ui.notify          if let Ok(editor) { .. } Ok(())
\*   editor.get_cursor  let editor = get_editor_mut()?   (mlua RuntimeError)
ApiOutcome(fn, bound) ==
    IF bound THEN "done"
    ELSE CASE fn = "editor.mode" -> "default_value"
           [] fn = "ui.notify" -> "silent_ok"
           [] fn = "editor.get_cursor" -> "RuntimeError"

\* The running callback calls an editor-dependent function; the outcome is
\* kept with the callback's frame (history).
CallApi(fn) ==
    /\ CanCall
    /\ stack' = [stack EXCEPT ![Len(stack)].api =
                    [fn |-> fn, bound |-> HasEditorContext,
                     outcome |-> ApiOutcome(fn, HasEditorContext)]]
    /\ stack' # stack
    /\ last' = NoCall
    /\ UNCHANGED <<registries, next_ui_callback_id, plugins, config, lua,
                   CURRENT_EDITOR, blocked, ui_requests, history>>

\* A load that records the plugin whether or not its script finished.
ResidentAlways(table, plugin, raised) ==
    {p \in table : p.name # plugin.name} \cup {plugin}
\* A table that keeps the descriptor it has for a name.
ResidentKeepFirst(table, plugin, raised) ==
    IF raised \/ \E p \in table : p.name = plugin.name THEN table
    ELSE table \cup {plugin}
\* The resident table once the entry script ended: self.plugins.insert(..) is
\* reached only past the `?` on exec().
Resident(table, plugin, raised) ==
    IF raised THEN table
    ELSE {p \in table : p.name # plugin.name} \cup {plugin}

\* A failed load that takes the plugin's subscriptions back.
HandlersAfterLoadUndone(handlers, name, raised) ==
    IF raised
    THEN [t \in EventTypes |-> SelectSeq(handlers[t], LAMBDA e : e.plugin # name)]
    ELSE handlers
\* The subscriptions once the entry script ended: the `?` on exec() returns
\* from load_plugin, nothing the script registered is taken back.
HandlersAfterLoad(handlers, name, raised) == handlers

\* ------------------------------------------------------ the script returns
\* The script of the top frame ends: it returns, or raises a Lua error.
ScriptReturn(raised) ==
    /\ stack # <<>>
    /\ Ready
    /\ LET f == Top IN
       CASE f.op = "load_plugin" ->
            /\ IF raised
               THEN /\ Finish(Below, f.op, f.arg, Err("LuaError"), <<>>, TRUE)
                    /\ UNCHANGED lua
               ELSE /\ lua' = [lua EXCEPT !.current_plugin_name = Nil]
                    /\ Finish(Below, f.op, f.arg, Ok, <<>>, FALSE)
            /\ plugins' = Resident(plugins, f.plugin, raised)
            /\ event_handlers' = HandlersAfterLoad(event_handlers, f.arg, raised)
            /\ UNCHANGED CURRENT_EDITOR
         [] f.op = "fire_event" ->
            LET callbacks == event_handlers[f.arg]
                step == AfterHandler(raised, f.idx, Len(callbacks))
            IN  /\ CASE step = "error" ->
                        /\ CURRENT_EDITOR' = ContextOnExit(f.editor, raised)
                        /\ Finish(Below, f.op, f.arg, EventHandlerError(f.tag), f.invoked, TRUE)
                     [] step = "next" ->
                        LET entry == callbacks[f.idx + 1] IN
                        /\ CURRENT_EDITOR' = ContextOnEntry(f.editor)
                        /\ stack' = Append(Below,
                              [Frame(f.op, f.arg, f.editor, f.idx + 1,
                                     entry, Append(f.invoked, entry), f.raised \/ raised)
                               EXCEPT !.data = f.data,
                                      !.payloads = Append(f.payloads,
                                                          EventPayload(f.arg, f.data))])
                        /\ last' = NoCall
                     [] step = "done" ->
                        /\ CURRENT_EDITOR' = ContextOnExit(f.editor, raised)
                        /\ Finish(Below, f.op, f.arg, Ok, f.invoked, f.raised \/ raised)
                /\ UNCHANGED <<lua, plugins>>
         [] f.op = "execute_command" ->
            /\ CURRENT_EDITOR' = ContextOnExit(f.editor, raised)
            /\ Finish(Below, f.op, f.arg, CommandResult(raised), f.invoked, raised)
            /\ UNCHANGED <<lua, plugins>>
         [] f.op = "handle_ui_callback" ->
            /\ CURRENT_EDITOR' = ContextOnExit(f.editor, raised)
            /\ Finish(Below, f.op, f.arg, UiCallbackResult(raised), f.invoked, raised)
            /\ UNCHANGED <<lua, plugins>>
    /\ Top.op # "load_plugin" => UNCHANGED event_handlers
    /\ ui_failed' = IF Top.op = "handle_ui_callback" /\ raised
                    THEN ui_failed \cup {Top.arg}
                    ELSE ui_failed
    /\ UNCHANGED <<commands, ui_callbacks, next_ui_callback_id, config, blocked,
                   ui_requests, subs, cmd_regs, ui_fired>>

\* The caller (the host, or the script that made a host call) takes the result
\* of the call that just returned.
TakeResult ==
    /\ last # NoCall
    /\ last' = NoCall
    /\ UNCHANGED <<registries, next_ui_callback_id, plugins, config, lua,
                   CURRENT_EDITOR, stack, blocked, ui_requests, history>>

\* ------------------------------------------------------------ specification
Next ==
    \/ register_api
    \/ reset
    \/ \E t \in FiredTypes : FireEvent(t, NoData)
    \/ \E c \in CmdNames, args \in ArgLists : ExecuteCommand(c, args)
    \/ \E k \in {UiKey(r.plugin, r.id) : r \in ui_requests} \cup {NeverIssued},
          convertible \in BOOLEAN :
          HandleUiCallback(k.plugin, k.id, convertible)
    \/ \E p \in PluginNames, exists \in BOOLEAN : LoadPlugin(p, exists)
    \/ \E n \in ScriptEventNames, f \in Funcs : CallOn(n, f)
    \/ \E c \in RegNames \cup {Missing}, f \in Funcs \cup {NoFunc} :
          CallRegisterCommand(c, f)
    \/ \E k \in UiKinds, f \in Funcs \cup {NoFunc} : CallUiRequest(k, f)
    \/ CallHostCommand
    \/ \E t \in FiredTypes : CallHostCommandFiringEvent(t)
    \/ \E c \in CmdNames : CallHostCommandExecuting(c)
    \/ \E raised \in BOOLEAN : ScriptReturn(raised)
    \/ TakeResult

Spec == Init /\ [][Next]_vars

\* ------------------------------------------- PluginManager::initialize
MaxDiscovered == 2
MaxConfig == 2

\* The files a plugin directory may hold besides plugin.toml.
FileNames == {"init.lua", "main.lua"}
\* plugin.toml of a directory: absent, present but not a PluginMetadata, or
\* parsed (entry is Nil when the file gives none).
NoToml == [status |-> "absent", name |-> Nil, version |-> Nil, entry |-> Nil]
BadToml == [status |-> "unparsable", name |-> Nil, version |-> Nil, entry |-> Nil]
Tomls ==
    {NoToml, BadToml} \cup
    {[status |-> "ok", name |-> n, version |-> "1.0.0", entry |-> e] :
        n \in PluginNames, e \in {Nil, "main.lua"}}
\* What read_dir yields for one entry of a plugin directory: a subdirectory
\* with its plugin.toml and files, or an I/O error.
Dir(dir, toml, files) == [kind |-> "dir", dir |-> dir, toml |-> toml, files |-> files]
IoErrorEntry == [kind |-> "io_error", dir |-> Nil, toml |-> NoToml, files |-> {}]
AllDirEntries ==
    {Dir(d, t, f) : d \in PluginNames, t \in Tomls, f \in SUBSET FileNames}
        \cup {IoErrorEntry}
\* The entries initialize is run on: a plugin directory with its entry script
\* and no metadata, a directory whose metadata cannot be loaded, an I/O error.
DirEntries ==
    {Dir(d, NoToml, {"init.lua"}) : d \in PluginNames}
        \cup {Dir("p1", BadToml, {"init.lua"}), IoErrorEntry}
Listings == UNION {[1..n -> DirEntries] : n \in 0..MaxDiscovered}
\* One plugin directory: its subdirectories have different names.
DiscoveryListings ==
    {l \in UNION {[1..n -> AllDirEntries] : n \in 0..MaxDiscovered} :
        \A i, j \in 1..Len(l) :
           (i # j /\ l[i].kind = "dir" /\ l[j].kind = "dir") => l[i].dir # l[j].dir}
\* PluginConfig.plugins: Vec<IndividualPluginConfig>
Configs == UNION {[1..n -> [name : PluginNames, enabled : BOOLEAN]] : n \in 0..MaxConfig}

\* Metadata that starts at version 0.0.0.
DefaultMetadataZero(dir) == [name |-> dir, version |-> "0.0.0", entry |-> "init.lua"]
\* PluginMetadata { name, ..Default::default() } for a directory without plugin.toml
DefaultMetadata(dir) == [name |-> dir, version |-> "0.1.0", entry |-> "init.lua"]

\* metadata.entry.as_deref().unwrap_or("init.lua")
ResolvedEntry(entry) == IF entry = Nil THEN "init.lua" ELSE entry

\* A check that takes every entry point as present.
EntryPresentAlways(files, entry) == TRUE
\* entry_path.exists()
EntryPresent(files, entry) == entry \in files

\* PluginLoader::load_plugin_metadata on one subdirectory.
load_plugin_metadata(e) ==
    IF e.toml.status = "unparsable"
    THEN [err |-> "ConfigError", plugin |-> Nil]
    ELSE LET metadata == IF e.toml.status = "ok"
                         THEN [name |-> e.toml.name, version |-> e.toml.version,
                               entry |-> e.toml.entry]
                         ELSE DefaultMetadata(e.dir)
         IN  IF ~EntryPresent(e.files, ResolvedEntry(metadata.entry))
             THEN [err |-> "InvalidPluginStructure", plugin |-> Nil]
             ELSE [err |-> Nil,
                   plugin |-> [name |-> metadata.name, version |-> metadata.version,
                               entry |-> metadata.entry, path |-> e.dir,
                               enabled |-> TRUE]]

\* PluginLoader::discover_plugins: an I/O error on read_dir or on an entry
\* is returned with `?`; an entry whose metadata fails to load is skipped.
discover_plugins(listing) ==
    IF \E i \in 1..Len(listing) : listing[i].kind = "io_error"
    THEN [err |-> TRUE, plugins |-> <<>>]
    ELSE LET kept == SelectSeq(listing, LAMBDA e : load_plugin_metadata(e).err = Nil)
         IN  [err |-> FALSE,
              plugins |-> [i \in 1..Len(kept) |-> load_plugin_metadata(kept[i]).plugin]]

\* A lookup that lets any entry of the name disable the plugin.
is_plugin_enabled_any(cfg, name) ==
    ~\E i \in 1..Len(cfg) : cfg[i].name = name /\ ~cfg[i].enabled
\* PluginManager::is_plugin_enabled: the first entry with the name decides,
\* a plugin without an entry is enabled.
is_plugin_enabled(cfg, name) ==
    LET hits == {i \in 1..Len(cfg) : cfg[i].name = name}
    IN  IF hits = {} THEN TRUE
        ELSE cfg[CHOOSE i \in hits : \A j \in hits : i <= j].enabled

\* A loop that gives up at the first load that fails.
AfterLoadAbort(result) == IF result = Ok THEN "loading" ELSE "returned"
\* if let Err(e) = engine.load_plugin(plugin) { log::error!(..) }: the loop goes on.
AfterLoad(result) == "loading"

\* A loop that may be left before its last plugin.
LoopDoneEarly(i) == TRUE
\* for plugin in plugins { .. } has run out of plugins.
LoopDone(i) == i.pos > Len(i.discovered)

\* PluginManager::new(): LuaEngine::new() and register_api().
ManagerNew ==
    /\ init.phase = "new"
    /\ ~lua.helix
    /\ register_api

\* initialize() up to the loop: discovery, whose error is returned with `?`.
InitializeBegin(listing, cfg) ==
    /\ Idle
    /\ init.phase = "new"
    /\ lua.helix
    /\ LET d == discover_plugins(listing) IN
       init' = IF d.err
               THEN [init EXCEPT !.phase = "returned", !.cfg = cfg,
                                 !.result = Err("IoError")]
               ELSE [init EXCEPT !.phase = "loading", !.cfg = cfg,
                                 !.discovered = [i \in 1..Len(d.plugins) |->
                                                    d.plugins[i].name]]
    /\ UNCHANGED <<registries, next_ui_callback_id, plugins, ui_handler, term, lua,
                   CURRENT_EDITOR, stack, blocked, ui_requests, history, last>>

\* The loop meets a plugin that is not enabled: continue.
InitializeSkip ==
    /\ Idle
    /\ init.phase = "loading"
    /\ init.pos <= Len(init.discovered)
    /\ ~is_plugin_enabled(init.cfg, init.discovered[init.pos])
    /\ init' = [init EXCEPT !.pos = @ + 1, !.attempts = Append(@, "skipped")]
    /\ UNCHANGED <<registries, next_ui_callback_id, plugins, ui_handler, term, lua,
                   CURRENT_EDITOR, stack, blocked, ui_requests, history, last>>

\* The loop calls engine.load_plugin on an enabled plugin.
InitializeLoad(entry_exists) ==
    /\ init.phase = "loading"
    /\ init.pos <= Len(init.discovered)
    /\ is_plugin_enabled(init.cfg, init.discovered[init.pos])
    /\ LoadPlugin(init.discovered[init.pos], entry_exists)

\* load_plugin has returned to the loop.
InitializeLoaded ==
    /\ init.phase = "loading"
    /\ stack = <<>>
    /\ blocked = Nil
    /\ last.op = "load_plugin"
    /\ init' = [init EXCEPT !.pos = @ + 1,
                            !.attempts = Append(@, IF last.result = Ok THEN "loaded" ELSE "failed"),
                            !.phase = AfterLoad(last.result),
                            !.result = IF AfterLoad(last.result) = "returned"
                                       THEN last.result ELSE @]
    /\ last' = NoCall
    /\ UNCHANGED <<registries, next_ui_callback_id, plugins, ui_handler, term, lua,
                   CURRENT_EDITOR, stack, blocked, ui_requests, history>>

\* The loop is over: drop(engine), and initialize goes on to fire the init event.
InitializeLoopEnd ==
    /\ Idle
    /\ init.phase = "loading"
    /\ LoopDone(init)
    /\ init' = [init EXCEPT !.phase = "firing", !.fired = @ + 1]
    /\ UNCHANGED <<registries, next_ui_callback_id, plugins, ui_handler, term, lua,
                   CURRENT_EDITOR, stack, blocked, ui_requests, history, last>>

\* self.fire_event(editor, PluginEvent { event_type: EventType::OnInit, .. })
InitializeFire ==
    /\ init.phase = "firing"
    /\ FireEvent("OnInit", NoData)

\* fire_event has returned: its error is returned with `?`, else Ok(()).
InitializeReturn ==
    /\ init.phase = "firing"
    /\ stack = <<>>
    /\ blocked = Nil
    /\ last.op = "fire_event"
    /\ init' = [init EXCEPT !.phase = "returned", !.result = last.result]
    /\ last' = NoCall
    /\ UNCHANGED <<registries, next_ui_callback_id, plugins, ui_handler, term, lua,
                   CURRENT_EDITOR, stack, blocked, ui_requests, history>>

\* The plugin manager is created and initialized once; the scripts it runs
\* subscribe, register commands and call editor-dependent functions.
NextInit ==
    \/ ManagerNew
    \/ (init.phase = "new"
          /\ \E listing \in Listings, cfg \in Configs : InitializeBegin(listing, cfg))
    \/ InitializeSkip
    \/ \E entry_exists \in BOOLEAN : InitializeLoad(entry_exists)
    \/ InitializeLoaded
    \/ InitializeLoopEnd
    \/ InitializeFire
    \/ InitializeReturn
    \/ \E n \in ScriptEventNames, f \in Funcs : CallOn(n, f)
    \/ \E c \in RegNames, f \in Funcs : CallRegisterCommand(c, f)
    \/ \E fn \in ApiFunctions : CallApi(fn)
    \/ \E raised \in BOOLEAN : ScriptReturn(raised)

SpecInit == Init /\ [][NextInit]_vars

\* ---------------------------------------------- the host after initialize
\* initialize has returned; the host fires events, executes commands and takes
\* their results.
NextHosted ==
    \/ NextInit
    \/ (init.phase = "returned" /\ \E t \in FiredTypes : FireEvent(t, NoData))
    \/ (init.phase = "returned"
          /\ \E c \in CmdNames, args \in ArgLists : ExecuteCommand(c, args))
    \/ (init.phase = "returned" /\ TakeResult)

SpecHosted == Init /\ [][NextHosted]_vars

\* ------------------------------------------------------------ discovery
\* The host discovers the plugins of one directory.
Discover(listing) ==
    /\ Idle
    /\ init.phase = "new"
    /\ LET d == discover_plugins(listing) IN
       init' = [init EXCEPT !.phase = "discovered", !.fs = listing,
                            !.found = d.plugins,
                            !.result = IF d.err THEN Err("IoError") ELSE Ok]
    /\ UNCHANGED <<registries, next_ui_callback_id, plugins, ui_handler, term, lua,
                   CURRENT_EDITOR, stack, blocked, ui_requests, history, last>>

\* A file of a plugin directory is removed after discovery.
FileRemoved(i, file) ==
    /\ Idle
    /\ init.phase = "discovered"
    /\ i \in 1..Len(init.fs)
    /\ file \in init.fs[i].files
    /\ init' = [init EXCEPT !.fs[i].files = @ \ {file}]
    /\ UNCHANGED <<registries, next_ui_callback_id, plugins, ui_handler, term, lua,
                   CURRENT_EDITOR, stack, blocked, ui_requests, history, last>>

\* The files now in the directory of a discovered plugin.
FilesOf(fs, plugin) ==
    UNION {fs[i].files : i \in {j \in 1..Len(fs) : fs[j].dir = plugin.path}}

\* entry_file.exists() in load_plugin, for the descriptor of a discovered plugin
EntryFileExists(fs, plugin) == ResolvedEntry(plugin.entry) \in FilesOf(fs, plugin)

\* The host loads a discovered plugin.
LoadDiscovered(i) ==
    /\ init.phase = "discovered"
    /\ i \in 1..Len(init.found)
    /\ LoadPlugin(init.found[i].name, EntryFileExists(init.fs, init.found[i]))

NextDiscovery ==
    \/ register_api
    \/ (init.phase = "new" /\ \E listing \in DiscoveryListings : Discover(listing))
    \/ \E i \in 1..MaxDiscovered, file \in FileNames : FileRemoved(i, file)
    \/ \E i \in 1..MaxDiscovered : LoadDiscovered(i)
    \/ \E f \in Funcs : CallOn("init", f)
    \/ \E raised \in BOOLEAN : ScriptReturn(raised)
    \/ TakeResult

SpecDiscovery == Init /\ [][NextDiscovery]_vars

\* ------------------------------------------------- subscribing by name
\* Names scripts hand to helix.on: every name as_str yields, and names that
\* differ from them in case, prefix or by being a variant's identifier.
SubscribeNames ==
    {as_str(t) : t \in EventTypes} \cup {"no_such_event", "Init", "OnInit", "on_init", ""}

\* Plugins are loaded and their scripts subscribe under any of the names.
NextNames ==
    \/ register_api
    \/ \E p \in PluginNames, exists \in BOOLEAN : LoadPlugin(p, exists)
    \/ \E n \in SubscribeNames, f \in Funcs : CallOn(n, f)
    \/ \E raised \in BOOLEAN : ScriptReturn(raised)
    \/ TakeResult

SpecNames == Init /\ [][NextNames]_vars

\* ------------------------------------------------------ event payloads
\* Event types the host fires with data, one for each variant of EventData.
PayloadTypes == {"OnInit", "OnBufferOpen", "OnModeChange", "OnKeyPress", "OnLspAttach",
                 "OnLspDiagnostic"}

\* Plugins subscribe to these events and the host fires them with their data.
NextPayload ==
    \/ register_api
    \/ \E p \in PluginNames : LoadPlugin(p, TRUE)
    \/ \E t \in PayloadTypes, f \in Funcs : CallOn(as_str(t), f)
    \/ \E t \in PayloadTypes : \E data \in EventDataOf(t) : FireEvent(t, data)
    \/ \E raised \in BOOLEAN : ScriptReturn(raised)
    \/ TakeResult

SpecPayload == Init /\ [][NextPayload]_vars

\* -------------------------------------------------------- UI requests
\* Plugins are loaded, subscribe and are dispatched to; their scripts and
\* callbacks make UI requests, whose outcome is kept, and the host delivers
\* the answers.
NextUi ==
    \/ register_api
    \/ \E p \in PluginNames : LoadPlugin(p, TRUE)
    \/ \E n \in ScriptEventNames, f \in Funcs : CallOn(n, f)
    \/ \E t \in FiredTypes : FireEvent(t, NoData)
    \/ \E k \in UiKinds, f \in Funcs \cup {NoFunc} : CallUiRequestNoted(k, f)
    \/ \E t \in FiredTypes : CallHostCommandFiringEvent(t)
    \/ \E k \in {UiKey(r.plugin, r.id) : r \in ui_requests},
          convertible \in BOOLEAN :
          HandleUiCallback(k.plugin, k.id, convertible)
    \/ \E raised \in BOOLEAN : ScriptReturn(raised)
    \/ TakeResult

SpecUi == Init /\ [][NextUi]_vars

\* ------------------------------------------------ registering commands
\* Plugins are loaded, their scripts and command handlers register commands
\* with complete and incomplete tables, and the host executes commands.
NextCommands ==
    \/ register_api
    \/ \E p \in PluginNames : LoadPlugin(p, TRUE)
    \/ \E c \in RegNames \cup {Missing}, f \in Funcs \cup {NoFunc} :
          CallRegisterCommandNoted(c, f)
    \/ \E c \in CmdNames, args \in ArgLists : ExecuteCommand(c, args)
    \/ \E raised \in BOOLEAN : ScriptReturn(raised)
    \/ TakeResult

SpecCommands == Init /\ [][NextCommands]_vars

\* ---------------------------------------------------- loading again
\* Directories a descriptor of a plugin can point to.
PluginPaths == {"dir1", "dir2"}

\* The host loads plugins from descriptors it was handed, again for a name
\* that is resident; the scripts subscribe and the host fires events.
NextReload ==
    \/ register_api
    \/ \E p \in PluginNames, path \in PluginPaths : load_plugin(Plugin(p, path), TRUE)
    \/ \E f \in Funcs : CallOn("init", f)
    \/ FireEvent("OnInit", NoData)
    \/ \E raised \in BOOLEAN : ScriptReturn(raised)
    \/ TakeResult

SpecReload == Init /\ [][NextReload]_vars

\* --------------------------------------------------------- inline blame
MaxBlameQueue == 2   \* requests in the handler's channel, and jobs waiting for the editor

\* Everything but the editor's documents and the blame handler.
plugin_system == <<registries, next_ui_callback_id, plugins, ui_handler, lua,
                   CURRENT_EDITOR, stack, blocked, ui_requests, history, last, init>>

\* The file a document was opened from, when it has one.
DocPath(d) == IF d = 1 THEN "/a" ELSE "/b"

BlameEvent(path, doc_id) == [path |-> path, doc_id |-> doc_id, line |-> Nil]

\* The open documents that have a path, in the order of editor.documents().
RECURSIVE DocsWithPath(_, _)
DocsWithPath(docs, ids) ==
    IF ids = {} THEN <<>>
    ELSE LET d == CHOOSE x \in ids : \A y \in ids : x <= y
             rest == DocsWithPath(docs, ids \ {d})
         IN  IF docs[d].state = "open" /\ docs[d].path # Nil
             THEN <<BlameEvent(docs[d].path, d)>> \o rest
             ELSE rest

\* The editor opens a document; the DocumentDidOpen hook (a document opened
\* from a path) requests its blame when auto-fetch is on.
OpenDocument(d, path) ==
    /\ term.docs[d].state = "unopened"
    /\ \A e \in DocumentIds : e < d => term.docs[e].state # "unopened"
    /\ Len(term.channel) < MaxBlameQueue
    /\ term' = [term EXCEPT
                   !.docs[d] = [state |-> "open", path |-> path, file_blame |-> Nil],
                   !.channel = IF path # Nil /\ term.auto_fetch
                               THEN Append(@, BlameEvent(path, d))
                               ELSE @]
    /\ UNCHANGED plugin_system

\* The editor closes a document.
CloseDocument(d) ==
    /\ term.docs[d].state = "open"
    /\ term' = [term EXCEPT !.docs[d] = [state |-> "closed", path |-> Nil,
                                         file_blame |-> Nil]]
    /\ UNCHANGED plugin_system

\* The configuration changes; the EditorConfigDidChange hook requests blame
\* for all documents with a path when auto-fetch went from off to on.
ConfigChange(auto_fetch) ==
    LET has_enabled_inline_blame == ~term.auto_fetch /\ auto_fetch
        requests == DocsWithPath(term.docs, DocumentIds)
    IN  /\ has_enabled_inline_blame => Len(term.channel) + Len(requests) <= MaxBlameQueue
        /\ term' = [term EXCEPT
                       !.auto_fetch = auto_fetch,
                       !.channel = IF has_enabled_inline_blame THEN @ \o requests ELSE @,
                       !.requested = IF has_enabled_inline_blame
                                     THEN {requests[i].doc_id : i \in 1..Len(requests)}
                                     ELSE @]
        /\ term' # term
        /\ UNCHANGED plugin_system

\* BlameHandler::handle_event: the request replaces whatever was pending.
PendingAfterEvent(handler, event) ==
    [pending_path |-> event.path, doc_id |-> event.doc_id, line |-> event.line]

\* The handler's task takes the next request off the channel: handle_event,
\* which sets the deadline 50 ms ahead.
HandleEvent ==
    /\ term.channel # <<>>
    /\ term' = [term EXCEPT
                   !.handler = PendingAfterEvent(@, Head(term.channel)),
                   !.channel = Tail(@),
                   !.deadline = TRUE]
    /\ UNCHANGED plugin_system

\* The deadline passes with no request waiting: finish_debounce takes the
\* pending path and dispatches the job that computes the blame.
FinishDebounce ==
    /\ term.deadline
    /\ term.channel = <<>>
    /\ Len(term.jobs) < MaxBlameQueue
    /\ term' = [term EXCEPT
                   !.deadline = FALSE,
                   !.handler.pending_path = Nil,
                   !.jobs = IF term.handler.pending_path # Nil
                            THEN Append(@, [doc_id |-> term.handler.doc_id,
                                            path |-> term.handler.pending_path,
                                            line |-> term.handler.line])
                            ELSE @]
    /\ UNCHANGED plugin_system

\* The editor runs a job dispatched by finish_debounce.
RunBlameJob ==
    /\ term.jobs # <<>>
    /\ LET job == Head(term.jobs) IN
       term' = IF term.docs[job.doc_id].state # "open"
               THEN [term EXCEPT !.jobs = Tail(@)]
               ELSE [term EXCEPT
                        !.jobs = Tail(@),
                        !.docs[job.doc_id].file_blame = job.path,
                        !.status = IF term.auto_fetch THEN @
                                   ELSE IF job.line # Nil THEN "blame_line"
                                   ELSE "Blame for this file is now available"]
    /\ UNCHANGED plugin_system

NextBlame ==
    \/ \E d \in DocumentIds : \E path \in {DocPath(d), Nil} : OpenDocument(d, path)
    \/ \E d \in DocumentIds : CloseDocument(d)
    \/ \E auto_fetch \in BOOLEAN : ConfigChange(auto_fetch)
    \/ HandleEvent
    \/ FinishDebounce
    \/ RunBlameJob

SpecBlame == Init /\ [][NextBlame]_vars

\* ------------------------------------------------- plugin annotations
\* The view shows one annotated line.  term.view holds its plugin annotations
\* (each a PluginAnnotation with its text as a number of one-column
\* characters, -1 standing for None in dropped_text and virt_line_idx), the
\* column at which the text of the line ends, the viewport width, and what
\* insert_virtual_lines and render_virt_lines returned for it (history).
MaxAnnotations == 3   \* annotations on the line

\* A value cast to u16.  A u16 sum beyond the range wraps in a build without
\* overflow checks and panics in a build with them: the results below carry
\* the wrapped values and, in "overflow", whether such a sum occurred.
AsU16(x) == x % 65536

\* helix_core::softwrapped_dimensions for a text of one-column characters
\* wrapped at viewport_width: (height, last_line_width).  The rows the
\* DocumentFormatter of render_virt_lines yields for the same text and format
\* are the same (last_row + 1 = height).
softwrapped_dimensions(chars, viewport_width) ==
    LET height == IF chars = 0 THEN 1
                  ELSE (chars + viewport_width - 1) \div viewport_width
    IN  [height |-> height, last_line_width |-> chars - (height - 1) * viewport_width]

\* TextRenderer::column_in_bounds for a view that is not scrolled sideways.
column_in_bounds(col, w, viewport_width) == col + w <= viewport_width

RECURSIVE TotalChars(_)
\* The sum of the character counts of the inline annotations.
TotalChars(inline) ==
    IF inline = <<>> THEN 0 ELSE inline[1].chars + TotalChars(Tail(inline))

\* insert_virtual_lines, first pass: u16 arithmetic on the line-end column.
\* (The columns of the model stay far below 2^16, so these sums never wrap.)
ReserveShouldDropAll(inline, col, width) ==
    LET first_offset == IF inline = <<>> THEN 0 ELSE inline[1].offset
        start_col == AsU16(AsU16(col) + first_offset)
        available_width == IF width > start_col THEN width - start_col ELSE 0
        total_chars == AsU16(TotalChars(inline))
        estimated_end_col == AsU16(start_col + total_chars + total_chars \div 4)
    IN  \/ inline # <<>> /\ available_width < 40
        \/ estimated_end_col > width

\* render_virt_lines, first pass: usize arithmetic, the start column cast to
\* u16 for the width check only.
RenderShouldDropAll(inline, col, width) ==
    LET first_offset == IF inline = <<>> THEN 0 ELSE inline[1].offset
        start_col == col + first_offset
        available_width == IF width > AsU16(start_col) THEN width - AsU16(start_col) ELSE 0
        total_chars == TotalChars(inline)
        estimated_end_col == start_col + total_chars + total_chars \div 4
    IN  \/ inline # <<>> /\ available_width < 40
        \/ estimated_end_col > width

RECURSIVE ReserveInlineRows(_, _, _, _, _)
\* insert_virtual_lines, second pass: each inline annotation starts where the
\* one before it ended (current_col), and its text is measured.
ReserveInlineRows(inline, current_col, dropped, width, inline_extra_rows) ==
    IF inline = <<>> THEN inline_extra_rows
    ELSE LET annot == inline[1]
             start_col == current_col
             available_width == IF width > start_col THEN width - start_col ELSE 0
             dim == softwrapped_dimensions(annot.chars, available_width)
             rows == IF dropped THEN dim.height ELSE dim.height - 1
         IN  IF available_width > 0
             THEN ReserveInlineRows(
                     Tail(inline),
                     IF dim.height = 1 THEN AsU16(start_col + dim.last_line_width)
                     ELSE AsU16(start_col + annot.chars),
                     dropped, width,
                     IF rows > inline_extra_rows THEN rows ELSE inline_extra_rows)
             ELSE ReserveInlineRows(Tail(inline), current_col, dropped, width,
                                    inline_extra_rows)

RECURSIVE RenderInlineRows(_, _, _, _, _)
\* render_virt_lines, second pass: each inline annotation starts at its own
\* offset, and dropped_text is drawn in place of text when all are dropped.
RenderInlineRows(inline, col, dropped, width, inline_extra_rows) ==
    IF inline = <<>> THEN inline_extra_rows
    ELSE LET annot == inline[1]
             display_chars == IF dropped /\ annot.dropped_chars # -1
                              THEN annot.dropped_chars ELSE annot.chars
             abs_start_col == IF dropped THEN annot.offset ELSE col + annot.offset
             left == IF width > AsU16(abs_start_col)
                     THEN width - AsU16(abs_start_col) ELSE 0
             available_width == IF left > 1 THEN left ELSE 1
             last_row == softwrapped_dimensions(display_chars, available_width).height - 1
             rows == IF dropped THEN last_row + 1 ELSE last_row
         IN  IF ~column_in_bounds(abs_start_col, 1, width) /\ ~dropped
             THEN RenderInlineRows(Tail(inline), col, dropped, width, inline_extra_rows)
             ELSE RenderInlineRows(
                     Tail(inline), col, dropped, width,
                     IF rows > inline_extra_rows THEN rows ELSE inline_extra_rows)

\* The row the i-th virtual-line annotation is grouped under: its explicit
\* index, or (max_virt_idx + 1) as u16 + next_auto_idx, where max_virt_idx
\* is the largest explicit index (-1 when there is none) and next_auto_idx
\* counts the annotations without an index before it.
RowIndex(virt, i) ==
    LET explicit == {virt[j].virt_line_idx : j \in 1..Len(virt)} \ {-1}
        max_virt_idx == IF explicit = {} THEN -1
                        ELSE CHOOSE m \in explicit : \A x \in explicit : x <= m
        next_auto_idx == Cardinality({j \in 1..(i - 1) : virt[j].virt_line_idx = -1})
        idx == AsU16(max_virt_idx + 1) + next_auto_idx
    IN  IF virt[i].virt_line_idx # -1
        THEN [idx |-> virt[i].virt_line_idx, overflow |-> FALSE]
        ELSE [idx |-> AsU16(idx), overflow |-> idx >= 65536]

RECURSIVE SumRows(_, _, _)
\* The heights of the rows of virt_annots_by_row added up, a row being as
\* high as the tallest annotation grouped under it; an annotation with
\* nothing of the viewport left at its offset takes no row.
SumRows(virt, width, rows) ==
    IF rows = {} THEN 0
    ELSE LET r == CHOOSE x \in rows : \A y \in rows : x <= y
             Height(annot) ==
                 IF width > annot.offset
                 THEN softwrapped_dimensions(annot.chars, width - annot.offset).height
                 ELSE 0
             heights == {Height(virt[i]) : i \in {j \in 1..Len(virt) : RowIndex(virt, j).idx = r}}
             max_height_in_row == CHOOSE h \in heights : \A x \in heights : x <= h
         IN  max_height_in_row + SumRows(virt, width, rows \ {r})

\* PluginLineAnnotations::insert_virtual_lines for the line: the rows reserved.
insert_virtual_lines ==
    /\ term.view.set
    /\ ~term.view.reserved.done
    /\ LET inline == SelectSeq(term.view.annots, LAMBDA a : ~a.is_line)
           virt == SelectSeq(term.view.annots, LAMBDA a : a.is_line)
           col == term.view.col
           width == term.view.width
           should_drop_all == ReserveShouldDropAll(inline, col, width)
           first_offset == IF inline = <<>> THEN 0 ELSE inline[1].offset
           inline_extra_rows ==
               ReserveInlineRows(inline,
                                 IF should_drop_all THEN first_offset
                                 ELSE AsU16(AsU16(col) + first_offset),
                                 should_drop_all, width, 0)
       IN  term' = [term EXCEPT !.view.reserved =
                      [done |-> TRUE,
                       rows |-> inline_extra_rows
                                + SumRows(virt, width,
                                          {RowIndex(virt, i).idx : i \in 1..Len(virt)}),
                       drop_all |-> should_drop_all,
                       row_idx |-> [i \in 1..Len(virt) |-> RowIndex(virt, i).idx],
                       overflow |-> \E i \in 1..Len(virt) : RowIndex(virt, i).overflow]]
    /\ UNCHANGED plugin_system

\* PluginDecoration::render_virt_lines on the last visual line of the line:
\* the rows drawn.
render_virt_lines ==
    /\ term.view.set
    /\ ~term.view.drawn.done
    /\ LET inline == SelectSeq(term.view.annots, LAMBDA a : ~a.is_line)
           virt == SelectSeq(term.view.annots, LAMBDA a : a.is_line)
           col == term.view.col
           width == term.view.width
           should_drop_all == RenderShouldDropAll(inline, col, width)
           inline_extra_rows == RenderInlineRows(inline, col, should_drop_all, width, 0)
       IN  term' = [term EXCEPT !.view.drawn =
                      [done |-> TRUE,
                       rows |-> inline_extra_rows
                                + SumRows(virt, width,
                                          {RowIndex(virt, i).idx : i \in 1..Len(virt)}),
                       drop_all |-> should_drop_all,
                       row_idx |-> [i \in 1..Len(virt) |-> RowIndex(virt, i).idx],
                       overflow |-> \E i \in 1..Len(virt) : RowIndex(virt, i).overflow]]
    /\ UNCHANGED plugin_system

\* A plugin sets the annotations of the line (buffer:set_annotations), in a
\* view of the given width, the text of the line ending at column col.
SetAnnotations(annots, col, width) ==
    /\ ~term.view.set
    /\ term' = [term EXCEPT !.view.annots = annots, !.view.set = TRUE,
                            !.view.col = col, !.view.width = width]
    /\ UNCHANGED plugin_system

NextAnnotations ==
    \/ /\ ~term.view.set
       /\ LET inline_annotations ==
                  [is_line : {FALSE}, offset : {0, 95}, chars : {10, 40},
                   dropped_chars : {-1, 5}, virt_line_idx : {-1}]
              line_annotations ==
                  [is_line : {TRUE}, offset : {0}, chars : {10},
                   dropped_chars : {-1}, virt_line_idx : {-1, 0, 65534, 65535}]
          IN  \E n \in 1..MaxAnnotations :
                 \E annots \in [1..n -> inline_annotations \cup line_annotations] :
                    \E col \in {0, 10}, width \in {30, 100} :
                       SetAnnotations(annots, col, width)
    \/ insert_virtual_lines
    \/ render_virt_lines

SpecAnnotations == Init /\ [][NextAnnotations]_vars

\* ============================================================== properties
DispatchOps == {"fire_event", "execute_command", "handle_ui_callback"}

\* The handlers subscribed to event_type since the last reset, oldest first.
SubscribedTo(event_type) ==
    LET s == SelectSeq(subs, LAMBDA r : r.event_type = event_type)
    IN  [i \in 1..Len(s) |-> [plugin |-> s[i].plugin, cb |-> s[i].cb]]

\* The accepted registrations of command `name` since the last reset, oldest first.
RegistrationsOf(name) == SelectSeq(cmd_regs, LAMBDA r : r.name = name)

\* The UiRequest message that carries `key` and `cb`.
RequestOf(key, cb) == [plugin |-> key.plugin, id |-> key.id, cb |-> cb]

\* C1: a fire_event(E) in which no handler fails returns success having invoked
\* exactly the handlers subscribed to E's type, each once, in subscription
\* order, whichever plugin subscribed them; a dispatch still running has
\* invoked the first idx handlers of that list and no other callback.
C1_SubscriptionOrder ==
    /\ (last.op = "fire_event" /\ ~last.raised) =>
          /\ last.result = Ok
          /\ last.invoked = SubscribedTo(last.arg)
    /\ \A i \in 1..Len(stack) :
          stack[i].op = "fire_event" =>
             stack[i].invoked = SubSeq(SubscribedTo(stack[i].arg), 1, stack[i].idx)

\* A dispatch has returned success after invoking two handlers subscribed under
\* different plugin names.
C1_Witness ==
    /\ last.op = "fire_event"
    /\ ~last.raised
    /\ Len(last.invoked) = 2
    /\ last.invoked[1].plugin # last.invoked[2].plugin

C3_UnboundOutsideDispatch ==
    (\A i \in 1..Len(stack) : stack[i].op \notin DispatchOps) => CURRENT_EDITOR = Nil

\* A dispatch that invoked a callback has just returned a script error and no
\* dispatch is in progress.
C3_Witness ==
    /\ stack = <<>>
    /\ last.op \in DispatchOps
    /\ last.raised
    /\ last.invoked # <<>>

\* C4: a callback running inside a dispatch has the host's editor bound, also
\* after a dispatch nested in it has returned; the binding is released only
\* when the outermost dispatch returns.
C4_BindingKeptAcrossNesting ==
    (stack # <<>> /\ Top.op \in DispatchOps) => CURRENT_EDITOR = Top.editor

\* C5: a UI callback entry is single-use.  No callback is invoked twice under
\* one pair, the entry is out of the registry from the first call on, a call
\* that finds no entry returns success, and an entry leaves the registry only
\* by its own handle_ui_callback (or by reset): entries under other keys stay.
C5_SingleUse ==
    /\ [](/\ \A r \in ui_fired : r.n <= 1
          /\ \A e \in ui_callbacks : FiredCount(e.key) = 0)
    /\ [][/\ (/\ stack = <<>>
              /\ last = NoCall
              /\ last'.op = "handle_ui_callback"
              /\ LookupUiCallback(ui_callbacks, last'.arg) = {}) => last'.result = Ok
          /\ \A e \in ui_callbacks :
                e \notin ui_callbacks' =>
                   \/ [key |-> e.key, n |-> 1] \in ui_fired' \ ui_fired
                   \/ last'.op = "handle_ui_callback" /\ last'.arg = e.key
                   \/ lua' = NewLua]_vars

\* A second handle_ui_callback for a pair whose callback already ran has
\* returned, while an entry under another key is still registered.
C5_Witness ==
    /\ last.op = "handle_ui_callback"
    /\ last.invoked = <<>>
    /\ FiredCount(last.arg) = 1
    /\ ui_callbacks # {}

\* C6: handle_ui_callback for a pair that has no entry returns success and
\* changes nothing: no callback is invoked, the editor binding is never set and
\* the three registries are unchanged.
C6_AbsentPairIsNoOp ==
    [][(/\ stack = <<>>
        /\ last = NoCall
        /\ last'.op = "handle_ui_callback"
        /\ LookupUiCallback(ui_callbacks, last'.arg) = {})
       => /\ last'.result = Ok
          /\ last'.invoked = <<>>
          /\ CURRENT_EDITOR = Nil
          /\ CURRENT_EDITOR' = Nil
          /\ UNCHANGED <<registries, stack, ui_fired>>]_vars

\* handle_ui_callback for a pair that was never issued has returned while
\* subscriptions and a UI callback are registered.
C6_Witness ==
    /\ last.op = "handle_ui_callback"
    /\ last.arg = NeverIssued
    /\ last.result = Ok
    /\ ui_callbacks # {}
    /\ subs # <<>>

\* C7: an interactive UI request issued inside a dispatch is deferred: it
\* returns to the script (the thread is never stuck in it), every registered
\* callback is the one whose pair was handed to the host, and the callback a
\* handle_ui_callback invokes is the one the request registered under that pair.
C7_UiRequestDeferred ==
    /\ blocked # "ui_callbacks"
    /\ \A e \in ui_callbacks : RequestOf(e.key, e.cb) \in ui_requests
    /\ \A i \in 1..Len(stack) :
          stack[i].op = "handle_ui_callback" =>
             RequestOf(stack[i].arg, stack[i].cb) \in ui_requests

\* C8: UI callback ids are never reused: every id handed out is below the
\* counter the next id comes from, across plugins and across reset, so a new
\* id is greater than every id issued before and no two requests share one.
C8_IdsNeverReused ==
    /\ \A r \in ui_requests : r.id >= 1 /\ r.id < next_ui_callback_id
    /\ \A e \in ui_callbacks : e.key.id < next_ui_callback_id
    /\ \A r1, r2 \in ui_requests : r1.id = r2.id => r1 = r2

\* Two requests by callbacks of different plugins, the earlier one dropped by a
\* reset before the later one was issued with a greater id.
C8_Witness ==
    \E r1, r2 \in ui_requests :
       /\ r1.id < r2.id
       /\ r1.cb.owner # r2.cb.owner
       /\ FiredCount(UiKey(r1.plugin, r1.id)) = 0
       /\ LookupUiCallback(ui_callbacks, UiKey(r1.plugin, r1.id)) = {}
       /\ LookupUiCallback(ui_callbacks, UiKey(r2.plugin, r2.id)) # {}

\* C9: execute_command of a name that has no entry returns
\* CommandExecutionFailed and performs no host mutation: no callback is
\* invoked, the editor binding is not set and the registries are unchanged.
C9_UnknownCommand ==
    [][(/\ last = NoCall
        /\ last'.op = "execute_command"
        /\ GetCommand(commands, last'.arg) = {})
       => /\ last'.result = Err("CommandExecutionFailed")
          /\ last'.invoked = <<>>
          /\ UNCHANGED <<registries, CURRENT_EDITOR, stack, plugins, lua,
                         next_ui_callback_id, ui_requests, ui_fired>>]_vars

\* The host executed a name that is not registered while another command is.
C9_Witness ==
    /\ last.op = "execute_command"
    /\ last.invoked = <<>>
    /\ stack = <<>>
    /\ commands # {}
    /\ GetCommand(commands, last.arg) = {}

\* C10: after register_command ran more than once with one name the registry
\* holds exactly one entry for it, get_commands lists it once with the latest
\* registration's metadata, and an execute_command of the name invokes the
\* latest registration's handler and nothing else.
C10_LastRegistrationWins ==
    /\ \A n \in RegNames :
          LET regs == RegistrationsOf(n)
              listed == {e \in DOMAIN get_commands : get_commands[e].name = n}
          IN  IF regs = <<>>
              THEN listed = {}
              ELSE /\ GetCommand(commands, n) = {regs[Len(regs)]}
                   /\ Cardinality(listed) = 1
                   /\ \A e \in listed :
                         get_commands[e] = [name |-> n, doc |-> regs[Len(regs)].doc]
    /\ \A i \in 1..Len(stack) :
          stack[i].op = "execute_command" =>
             LET regs == RegistrationsOf(stack[i].arg)
             IN  /\ regs # <<>>
                 /\ stack[i].cb = regs[Len(regs)].cb
                 /\ stack[i].invoked = <<[plugin |-> Nil, cb |-> regs[Len(regs)].cb]>>

\* The name was registered twice with different handlers and metadata, and the
\* handler of the second registration is running for an execute_command.
C10_Witness ==
    /\ Len(cmd_regs) = 2
    /\ cmd_regs[1].name = cmd_regs[2].name
    /\ cmd_regs[1].cb # cmd_regs[2].cb
    /\ cmd_regs[1].doc # cmd_regs[2].doc
    /\ stack # <<>>
    /\ Top.op = "execute_command"
    /\ Top.cb = cmd_regs[2].cb

\* C11: execute_command of a registered name binds the host's editor, calls
\* the handler once with the argument vector it was given, and unbinds when
\* the handler ends; a handler that raises makes the call return
\* CommandExecutionFailed, with the binding released and the command still
\* registered.
C11_RegisteredCommand ==
    [][/\ (stack' # <<>> /\ Len(stack') = Len(stack) + 1
           /\ stack'[Len(stack')].op = "execute_command")
          => LET f == stack'[Len(stack')] IN
             /\ GetCommand(commands, f.arg) # {}
             /\ CURRENT_EDITOR' = f.editor
             /\ CURRENT_EDITOR' # Nil
             /\ f.params = f.args
             /\ Len(f.invoked) = 1
             /\ \E e \in GetCommand(commands, f.arg) : f.invoked[1].cb = e.cb
       /\ (stack # <<>> /\ Len(stack') = Len(stack) - 1
           /\ Top.op = "execute_command")
          => /\ CURRENT_EDITOR' = Nil
             /\ last'.op = "execute_command"
             /\ last'.invoked = Top.invoked
             /\ last'.result =
                   (IF last'.raised THEN Err("CommandExecutionFailed") ELSE Ok)
             /\ commands' = commands
             /\ GetCommand(commands', Top.arg) # {}]_vars

\* A handler called with a non-empty argument vector raised: the call has
\* returned CommandExecutionFailed and the command is still registered.
C11_Witness ==
    /\ last.op = "execute_command"
    /\ last.raised
    /\ last.invoked # <<>>
    /\ last.result = Err("CommandExecutionFailed")
    /\ GetCommand(commands, last.arg) # {}
    /\ CURRENT_EDITOR = Nil
    /\ stack = <<>>

\* C13: reset() leaves nothing registered: after it every subscription list,
\* the command registry, the UI callback registry and the resident table are
\* empty and the interpreter is a fresh one; at all times the event and command
\* registries hold exactly what was registered since the last reset, so what
\* came before it is dispatched to as if it had never been registered.
C13_ResetForgets ==
    /\ [][(Idle /\ stack' = <<>> /\ last' = NoCall /\ ~lua'.helix)
          => /\ \A t \in EventTypes : event_handlers'[t] = <<>>
             /\ commands' = {}
             /\ ui_callbacks' = {}
             /\ plugins' = {}
             /\ lua' = NewLua]_vars
    /\ [](/\ \A t \in EventTypes : event_handlers[t] = SubscribedTo(t)
          /\ \A n \in CmdNames : (GetCommand(commands, n) = {}) = (RegistrationsOf(n) = <<>>))

\* After a reset the host answered a UI request issued before it: the pair had
\* a pending callback that never ran, nothing is registered any more and the
\* call invoked nothing.
C13_Witness ==
    /\ last.op = "handle_ui_callback"
    /\ last.arg # NeverIssued
    /\ last.invoked = <<>>
    /\ last.result = Ok
    /\ FiredCount(last.arg) = 0
    /\ ui_callbacks = {}
    /\ subs = <<>>
    /\ cmd_regs = <<>>
    /\ plugins = {}

\* C14: the resident table changes only when a load succeeds, which adds that
\* plugin, or on reset, which empties it: a load that fails for a missing entry
\* file or a raising script leaves the table as it was, and a load that
\* succeeds leaves its plugin in the table.
C14_ResidentTable ==
    [][/\ plugins' # plugins
          => \/ (Idle /\ stack' = <<>> /\ last' = NoCall /\ ~lua'.helix /\ plugins' = {})
             \/ /\ stack # <<>>
                /\ Top.op = "load_plugin"
                /\ last'.op = "load_plugin"
                /\ last'.result = Ok
                /\ ResidentNames' = ResidentNames \cup {Top.arg}
       /\ (last = NoCall /\ last'.op = "load_plugin")
          => IF last'.result = Ok
             THEN last'.arg \in ResidentNames'
             ELSE plugins' = plugins]_vars

\* A plugin's script raised during its load while another plugin is resident:
\* the failed plugin is not in the table.
C14_Witness ==
    /\ last.op = "load_plugin"
    /\ last.raised
    /\ last.arg \notin ResidentNames
    /\ plugins # {}

\* C15: the current-plugin identity is set only while load_plugin runs a
\* plugin's script: with no load in progress it is unset, whichever way the
\* last load ended.
C15_IdentityClearedAfterLoad ==
    ~InProgress("load_plugin") => lua.current_plugin_name = Nil

\* C20: a helix.on call made by a handler running inside fire_event returns to
\* the handler (the thread never waits in it), and the dispatch goes on over
\* the handler list as it was when the dispatch started.
C20_SubscribeDuringDispatch ==
    /\ blocked # "event_handlers"
    /\ \A i \in 1..Len(stack) :
          stack[i].op = "fire_event" =>
             /\ stack[i].idx <= Len(event_handlers[stack[i].arg])
             /\ stack[i].invoked = SubSeq(event_handlers[stack[i].arg], 1, stack[i].idx)

\* C12: an editor-dependent API function called by a script while no editor is
\* bound fails with ApiAccessError: it neither succeeds silently nor returns a
\* default value.
C12_UnboundApiCallFails ==
    \A i \in 1..Len(stack) :
       (stack[i].api.fn # Nil /\ ~stack[i].api.bound)
          => stack[i].api.outcome = "ApiAccessError"

\* C16: during initialize a load that fails leaves the loop running: the next
\* discovered plugin is handled, every discovered plugin is either skipped or
\* attempted before the loop ends, and the init event is fired all the same;
\* initialize returns only from the init event's dispatch.
C16_LoadFailureIsolated ==
    /\ [][/\ (init.phase = "loading" /\ last.op = "load_plugin" /\ last.result # Ok
              /\ init' # init)
             => /\ init'.phase = "loading"
                /\ init'.pos = init.pos + 1
                /\ init'.attempts = Append(init.attempts, "failed")
          /\ (init.phase = "firing" /\ init'.phase = "returned")
             => /\ last.op = "fire_event"
                /\ last.arg = "OnInit"
                /\ init'.result = last.result]_vars
    /\ []((init.phase \in {"firing", "returned"}
           /\ \E i \in 1..Len(init.attempts) : init.attempts[i] = "failed")
          => /\ Len(init.attempts) = Len(init.discovered)
             /\ init.fired = 1)

\* initialize has returned Ok although the first discovered plugin failed to
\* load: the second one was loaded after it and is resident.
C16_Witness ==
    /\ init.phase = "returned"
    /\ init.result = Ok
    /\ init.attempts = <<"failed", "loaded">>
    /\ init.discovered[2] \in ResidentNames
    /\ init.discovered[1] \notin ResidentNames
    /\ init.fired = 1

\* C17: no discovery or load-time error makes initialize return early: when
\* it has returned, every discovered plugin was handled, the init event was
\* fired, and the result is not a discovery error.
C17_ErrorsNeverAbort ==
    init.phase = "returned"
       => /\ init.fired = 1
          /\ init.result # Err("IoError")
          /\ Len(init.attempts) = Len(init.discovered)

\* C18, as stated: a discovered plugin is loaded unless some configuration
\* entry with its name has enabled = false.
C18_DisabledByAnyEntry ==
    \A i \in 1..Len(init.attempts) :
       (init.attempts[i] = "skipped")
          <=> \E k \in 1..Len(init.cfg) :
                 /\ init.cfg[k].name = init.discovered[i]
                 /\ ~init.cfg[k].enabled

\* C18: initialize loads a discovered plugin if and only if the first
\* configuration entry with its name, if there is one, has enabled = true; the
\* script of a plugin it skips is never run, no callback of it is subscribed
\* or registered, and it is never resident.
C18_FirstEntryDecides ==
    LET Disabled(name) ==
            \E k \in 1..Len(init.cfg) :
               /\ init.cfg[k].name = name
               /\ ~init.cfg[k].enabled
               /\ \A j \in 1..(k - 1) : init.cfg[j].name # name
    IN  /\ \A i \in 1..Len(init.attempts) :
              (init.attempts[i] = "skipped") <=> Disabled(init.discovered[i])
        /\ \A i \in 1..Len(stack) : ~Disabled(stack[i].cb.owner)
        /\ \A i \in 1..Len(subs) : ~Disabled(subs[i].cb.owner)
        /\ \A i \in 1..Len(cmd_regs) : ~Disabled(cmd_regs[i].cb.owner)
        /\ \A name \in ResidentNames : ~Disabled(name)
        /\ last.op = "load_plugin" => ~Disabled(last.arg)

\* initialize has returned having skipped a disabled plugin and loaded an
\* enabled one, which made a registration.
C18_Witness ==
    /\ init.phase = "returned"
    /\ \E i \in 1..Len(init.attempts) : init.attempts[i] = "skipped"
    /\ \E i \in 1..Len(init.attempts) : init.attempts[i] = "loaded"
    /\ Len(subs) + Len(cmd_regs) > 0
    /\ plugins # {}

\* C19: initialize attempts the enabled plugins in discovery order; it fires
\* the init event once, after the loop has handled the last discovered plugin;
\* no handler of any event runs before that; and a dispatch of the init event
\* in which no handler fails has invoked exactly the handlers subscribed when
\* it started, in order.
C19_InitAfterLoads ==
    /\ [](/\ init.fired <= 1
          /\ init.phase \in {"new", "loading"}
                => /\ init.fired = 0
                   /\ ~InProgress("fire_event")
                   /\ last.op # "fire_event"
          /\ init.phase = "firing"
                => /\ init.fired = 1
                   /\ Len(init.attempts) = Len(init.discovered)
          /\ (last.op = "fire_event" /\ ~last.raised)
                => last.invoked = SubscribedTo("OnInit"))
    /\ [][/\ (stack = <<>> /\ last = NoCall
              /\ \/ last'.op = "load_plugin"
                 \/ (stack' # <<>> /\ stack'[1].op = "load_plugin"))
             => /\ init.phase = "loading"
                /\ Len(init.attempts) = init.pos - 1
                /\ init.pos <= Len(init.discovered)
                /\ is_plugin_enabled(init.cfg, init.discovered[init.pos])
                /\ IF stack' # <<>> THEN stack'[1].arg = init.discovered[init.pos]
                                    ELSE last'.arg = init.discovered[init.pos]
          /\ (stack = <<>> /\ last = NoCall
              /\ \/ last'.op = "fire_event"
                 \/ (stack' # <<>> /\ stack'[1].op = "fire_event"))
             => /\ init.phase = "firing"
                /\ init.pos = Len(init.discovered) + 1
                /\ event_handlers["OnInit"] = SubscribedTo("OnInit")
                /\ IF stack' # <<>>
                   THEN /\ stack'[1].arg = "OnInit"
                        /\ stack'[1].invoked = <<event_handlers["OnInit"][1]>>
                   ELSE /\ last'.arg = "OnInit"
                        /\ event_handlers["OnInit"] = <<>>]_vars

\* Two plugins were loaded in discovery order, each subscribed a handler to
\* the init event, and the one dispatch of the init event has invoked both.
C19_Witness ==
    /\ init.phase = "firing"
    /\ init.attempts = <<"loaded", "loaded">>
    /\ init.discovered[1] # init.discovered[2]
    /\ last.op = "fire_event"
    /\ Len(last.invoked) = 2
    /\ last.invoked[1].plugin = init.discovered[1]
    /\ last.invoked[2].plugin = init.discovered[2]

\* C21: every event-handler entry and every UI-callback key carries the name
\* of the plugin whose script made the registration, whether the call was made
\* by the plugin's entry script or later by one of its callbacks.
C21_TaggedWithOwner ==
    /\ \A t \in EventTypes : \A i \in 1..Len(event_handlers[t]) :
          event_handlers[t][i].plugin = event_handlers[t][i].cb.owner
    /\ \A e \in ui_callbacks : e.key.plugin = e.cb.owner

C23_Payload ==
    \A i \in 1..Len(stack) :
       stack[i].op = "fire_event" =>
          LET f == stack[i] IN
          /\ Len(f.payloads) = Len(f.invoked)
          /\ \A k \in 1..Len(f.payloads) :
                LET p == f.payloads[k] IN
                /\ p.type = as_str(f.arg)
                /\ f.data.kind = "Buffer"
                      => /\ p.document_id = DebugFormat(f.data.document_id)
                         /\ IF f.data.path = Nil
                            THEN DOMAIN p = {"type", "document_id"}
                            ELSE p.path = f.data.path
                /\ f.data.kind = "ModeChange"
                      => /\ p.old_mode = f.data.old_mode
                         /\ p.new_mode = f.data.new_mode
                /\ f.data.kind = "KeyPress" => p.key = f.data.key
                /\ f.data.kind = "LspDiagnostic"
                      => /\ p.document_id = DebugFormat(f.data.document_id)
                         /\ p.diagnostic_count = f.data.diagnostic_count
          /\ \A k, l \in 1..Len(f.payloads) : f.payloads[k] = f.payloads[l]

\* A buffer-open event with a path is being delivered to its second handler,
\* subscribed by another plugin than the first.
C23_Witness ==
    /\ stack # <<>>
    /\ Top.op = "fire_event"
    /\ Top.arg = "OnBufferOpen"
    /\ Top.data.kind = "Buffer"
    /\ Top.data.path # Nil
    /\ Len(Top.payloads) = 2
    /\ Top.invoked[1].plugin # Top.invoked[2].plugin
    /\ Top.payloads[2].type = "buffer_open"

\* C24: discovery that meets no I/O error returns, in directory order, the
\* plugins of exactly those directories whose metadata loads and whose resolved
\* entry script is present, so a directory without its entry script is left
\* out and the others are returned; load_plugin on a descriptor whose entry
\* script is absent returns InvalidPluginStructure at once: no script runs,
\* the current-plugin identity, the registries and the resident table stay as
\* they were. A load that does run a script had its entry script present.
C24_MissingEntryRejected ==
    [][/\ (init.phase = "new" /\ init'.phase = "discovered" /\ init'.result = Ok)
          => LET l == init'.fs
                 found == init'.found
                 EntryOf(e) == IF e.toml.status = "ok" /\ e.toml.entry # Nil
                               THEN e.toml.entry ELSE "init.lua"
                 At(path) == CHOOSE i \in 1..Len(l) : l[i].dir = path
             IN  /\ \A k \in 1..Len(found) :
                       /\ \E i \in 1..Len(l) : l[i].dir = found[k].path
                       /\ EntryOf(l[At(found[k].path)]) \in l[At(found[k].path)].files
                 /\ \A i \in 1..Len(l) :
                       (\E k \in 1..Len(found) : found[k].path = l[i].dir)
                          <=> (l[i].toml.status # "unparsable" /\ EntryOf(l[i]) \in l[i].files)
                 /\ \A j, k \in 1..Len(found) :
                       j < k => At(found[j].path) < At(found[k].path)
       /\ (init.phase = "discovered" /\ stack = <<>> /\ last = NoCall
           /\ last'.op = "load_plugin")
          => /\ last'.result = Err("InvalidPluginStructure")
             /\ \E k \in 1..Len(init.found) :
                   /\ init.found[k].name = last'.arg
                   /\ ~\E i \in 1..Len(init.fs) :
                         /\ init.fs[i].dir = init.found[k].path
                         /\ (IF init.found[k].entry = Nil THEN "init.lua"
                             ELSE init.found[k].entry) \in init.fs[i].files
             /\ stack' = <<>>
             /\ lua' = lua
             /\ plugins' = plugins
             /\ UNCHANGED <<event_handlers, commands, ui_callbacks, subs, cmd_regs>>
       /\ (init.phase = "discovered" /\ stack = <<>> /\ stack' # <<>>)
          => /\ stack'[1].op = "load_plugin"
             /\ \E k \in 1..Len(init.found) :
                   /\ init.found[k].name = stack'[1].arg
                   /\ \E i \in 1..Len(init.fs) :
                         /\ init.fs[i].dir = init.found[k].path
                         /\ (IF init.found[k].entry = Nil THEN "init.lua"
                             ELSE init.found[k].entry) \in init.fs[i].files]_vars

\* Discovery left one of two directories out; the entry script of the plugin
\* it returned was removed afterwards and the plugin's load was refused, with a
\* subscription of an earlier load still in place and no identity bound.
C24_Witness ==
    /\ init.phase = "discovered"
    /\ Len(init.fs) = 2
    /\ Len(init.found) = 1
    /\ init.fs[1].toml.status = "absent"
    /\ last.op = "load_plugin"
    /\ last.result = Err("InvalidPluginStructure")
    /\ subs # <<>>
    /\ last.arg \in ResidentNames
    /\ lua.current_plugin_name = Nil

\* C25: a directory that has its init.lua and no metadata file is discovered
\* as the plugin named after the directory, version "0.1.0", entry init.lua,
\* enabled; a discovered directory with a metadata file yields the name and
\* version of that file.
C25_DefaultMetadata ==
    [][(init.phase = "new" /\ init'.phase = "discovered" /\ init'.result = Ok)
       => LET l == init'.fs
              found == init'.found
          IN  /\ \A i \in 1..Len(l) :
                    (l[i].toml.status = "absent" /\ "init.lua" \in l[i].files)
                       => \E k \in 1..Len(found) :
                             found[k] = [name |-> l[i].dir, version |-> "0.1.0",
                                         entry |-> "init.lua", path |-> l[i].dir,
                                         enabled |-> TRUE]
              /\ \A k \in 1..Len(found) : \A i \in 1..Len(l) :
                    (l[i].dir = found[k].path /\ l[i].toml.status = "ok")
                       => /\ found[k].name = l[i].toml.name
                          /\ found[k].version = l[i].toml.version
                          /\ found[k].enabled]_vars

\* Discovery returned a plugin without metadata, under its directory's name
\* and version 0.1.0, and a plugin whose metadata names it otherwise than its
\* directory.
C25_Witness ==
    /\ init.phase = "discovered"
    /\ Len(init.found) = 2
    /\ init.fs[1].toml.status = "absent"
    /\ init.found[1].name = init.fs[1].dir
    /\ init.found[1].version = "0.1.0"
    /\ init.fs[2].toml.status = "ok"
    /\ init.found[2].name # init.fs[2].dir
    /\ init.found[2].version = "1.0.0"

\* C27: the callback a fire_event, execute_command or handle_ui_callback is
\* running has an editor bound, and it is the editor that was passed to that
\* dispatch call, at entry and for as long as the callback runs.
C27_CallbackHasBinding ==
    \A i \in 1..Len(stack) :
       stack[i].op \in DispatchOps =>
          /\ stack[i].editor = Editor
          /\ i = Len(stack) => (HasEditorContext /\ CURRENT_EDITOR = stack[i].editor)

\* C28: a UI request made by a callback that handle_ui_callback is running
\* returns to the callback: the thread never waits for the UI callback
\* registry.
C28_ChainedUiRequest == blocked # "ui_callbacks"

\* C29: a helix.register_command made by a handler that execute_command is
\* running returns to the handler: the thread never waits for the command
\* registry.
C29_RegisterInsideCommand == blocked # "commands"

\* C30: when a plugin's entry script raises, load_plugin returns the script
\* error and leaves the resident table, the subscriptions and the commands as
\* the script left them: nothing it registered is taken back. A later dispatch
\* runs what is registered, resident owner or not: a fire_event in which no
\* handler fails has invoked every handler subscribed to the type, the init
\* event of initialize included, and execute_command runs the handler
\* registered under the name.
C30_NoRollback ==
    /\ [][(stack # <<>> /\ Top.op = "load_plugin" /\ Len(stack') = Len(stack) - 1
           /\ last'.raised)
          => /\ last'.result = Err("LuaError")
             /\ plugins' = plugins
             /\ event_handlers' = event_handlers
             /\ commands' = commands]_vars
    /\ [](/\ (last.op = "fire_event" /\ ~last.raised)
                => last.invoked = event_handlers[last.arg]
          /\ \A t \in EventTypes : event_handlers[t] = SubscribedTo(t)
          /\ \A i \in 1..Len(stack) :
                stack[i].op = "execute_command"
                   => \E e \in GetCommand(commands, stack[i].arg) : e.cb = stack[i].cb)

\* The first discovered plugin subscribed to the init event and registered a
\* command before its script raised: it is not resident, the init event of
\* initialize has invoked its handler, and the host is running its command.
C30_Witness ==
    /\ init.phase = "returned"
    /\ Len(init.attempts) >= 1
    /\ init.attempts[1] = "failed"
    /\ init.discovered[1] \notin ResidentNames
    /\ Len(event_handlers["OnInit"]) = 1
    /\ event_handlers["OnInit"][1].plugin = init.discovered[1]
    /\ init.result = Ok
    /\ stack # <<>>
    /\ Top.op = "execute_command"
    /\ Top.cb.owner = init.discovered[1]

\* C31: handle_ui_callback takes the entry of (plugin, id) out of the registry
\* before it invokes the callback.  While the callback runs the pair has no
\* entry; when the callback raises, or the delivered value cannot be
\* converted, the call returns LuaError with the entry consumed and the
\* editor binding released; the pair never has an entry again, and a later
\* delivery of it returns success, invokes nothing and changes nothing.
C31_ConsumedBeforeInvoke ==
    /\ [](/\ \A i \in 1..Len(stack) :
                stack[i].op = "handle_ui_callback" =>
                   LookupUiCallback(ui_callbacks, stack[i].arg) = {}
          /\ (last.op = "handle_ui_callback" /\ last.raised) =>
                last.result = Err("LuaError")
          /\ (last.op = "handle_ui_callback" /\ last.result # Ok) =>
                /\ last.result = Err("LuaError")
                /\ last.arg \in ui_failed
                /\ stack = <<>>
                /\ CURRENT_EDITOR = Nil
          /\ \A k \in ui_failed : LookupUiCallback(ui_callbacks, k) = {})
    /\ [][/\ (/\ stack = <<>>
              /\ last = NoCall
              /\ last'.op = "handle_ui_callback"
              /\ LookupUiCallback(ui_callbacks, last'.arg) # {})
             => /\ last'.result = Err("LuaError")
                /\ last'.invoked = <<>>
                /\ ui_callbacks' = RemoveUiCallback(ui_callbacks, last'.arg)
                /\ CURRENT_EDITOR' = Nil
          /\ (/\ stack = <<>>
              /\ last = NoCall
              /\ last'.op = "handle_ui_callback"
              /\ last'.arg \in ui_failed)
             => /\ last'.result = Ok
                /\ last'.invoked = <<>>
                /\ CURRENT_EDITOR' = Nil
                /\ UNCHANGED <<registries, stack, ui_fired, ui_failed>>
          /\ \A i \in 1..Len(stack') :
                (stack'[i].op = "handle_ui_callback" /\ stack'[i].arg \in ui_failed)
                   => (i <= Len(stack) /\ stack[i] = stack'[i])]_vars

\* A pair whose callback raised and a pair whose value did not convert were
\* both consumed, and a second delivery of the pair whose callback raised
\* has returned success without invoking anything.
C31_Witness ==
    /\ last.op = "handle_ui_callback"
    /\ last.result = Ok
    /\ last.invoked = <<>>
    /\ last.arg \in ui_failed
    /\ FiredCount(last.arg) = 1
    /\ \E k \in ui_failed : FiredCount(k) = 0

\* C32: a UI request (prompt, confirm or picker) made while no editor binding
\* is active, as from a plugin's top-level script during load, or while no UI
\* handler is installed, has no effect: it registers no callback, consumes no
\* callback id, sends nothing to the host's UI handler, does not block, and
\* returns success to the script.
C32_DroppedUiRequest ==
    /\ [](/\ \A i \in 1..Len(stack) :
                (stack[i].api.fn \in UiKinds /\ stack[i].op = "load_plugin") =>
                   stack[i].api.outcome = "silent_ok"
          /\ ~lua.ui_handler =>
                /\ ui_callbacks = {}
                /\ ui_requests = {}
                /\ next_ui_callback_id = 1)
    /\ [][(/\ stack # <<>>
           /\ Len(stack') = Len(stack)
           /\ stack'[Len(stack)].api # Top.api
           /\ stack'[Len(stack)].api.fn \in UiKinds
           /\ (CURRENT_EDITOR = Nil \/ ~lua.ui_handler))
          => /\ stack'[Len(stack)].api.outcome = "silent_ok"
             /\ blocked' = Nil
             /\ UNCHANGED <<registries, next_ui_callback_id, ui_requests>>]_vars

\* With a UI handler installed and a callback registered by an earlier request
\* of a handler, the top-level script of a plugin being loaded has made a UI
\* request that was dropped.
C32_Witness ==
    /\ lua.ui_handler
    /\ ui_callbacks # {}
    /\ stack # <<>>
    /\ Top.op = "load_plugin"
    /\ Top.api.fn \in UiKinds
    /\ ~Top.api.bound
    /\ Top.api.outcome = "silent_ok"

RegisterErrors == {"Command name required", "Command handler function required"}

\* C33: helix.register_command with a table that lacks a name or lacks a
\* handler function raises a script error and leaves the command registry as
\* it was: no entry is added, an existing entry of that name is not replaced,
\* and no entry ever lacks a name or a handler.
C33_IncompleteTableRejected ==
    /\ [](\A e \in commands : e.name # Missing /\ e.cb # NoFunc)
    /\ [][(/\ stack # <<>>
           /\ Len(stack') = Len(stack)
           /\ stack'[Len(stack)].api # Top.api
           /\ stack'[Len(stack)].api.fn = "register_command")
          => \/ /\ stack'[Len(stack)].api.outcome \in RegisterErrors
                /\ blocked' = Nil
                /\ UNCHANGED <<commands, cmd_regs>>
             \/ /\ stack'[Len(stack)].api.outcome = "done"
                /\ \/ blocked' = "commands" /\ UNCHANGED <<commands, cmd_regs>>
                   \/ /\ Len(cmd_regs') = Len(cmd_regs) + 1
                      /\ cmd_regs'[Len(cmd_regs')] \in commands'
                      /\ cmd_regs'[Len(cmd_regs')].cb # NoFunc]_vars

\* A script that registered c1 has then called helix.register_command with
\* name c1 and no handler: the call raised and the entry of c1 is the one
\* registered before.
C33_Witness ==
    /\ stack # <<>>
    /\ Top.api.fn = "register_command"
    /\ Top.api.outcome = "Command handler function required"
    /\ cmd_regs # <<>>
    /\ \E e \in commands : e.name = "c1" /\ e = cmd_regs[Len(cmd_regs)]

\* C34: load_plugin does not reject a plugin whose name is resident.  The
\* script runs again; when it ends normally the table holds one entry for the
\* name, the descriptor of this load; the subscriptions of every load stay
\* registered, so a later dispatch invokes each of them, one invocation for
\* each load that subscribed the handler.
C34_LoadedAgain ==
    /\ [](/\ \A p, q \in plugins : p.name = q.name => p = q
          /\ last.op = "load_plugin" =>
                \/ last.result = Ok
                \/ last.result = Err("LuaError") /\ last.raised
          /\ \A t \in EventTypes : event_handlers[t] = SubscribedTo(t)
          /\ (last.op = "fire_event" /\ ~last.raised) =>
                last.invoked = SubscribedTo(last.arg))
    /\ [][/\ (stack = <<>> /\ stack' # <<>> /\ stack'[1].op = "load_plugin")
             => /\ stack'[1].cb = MainChunk(stack'[1].arg)
                /\ UNCHANGED <<plugins, event_handlers>>
          /\ (stack # <<>> /\ Top.op = "load_plugin" /\ last'.op = "load_plugin"
              /\ last'.result = Ok)
             => /\ Top.plugin \in plugins'
                /\ \A q \in plugins' : q.name # Top.arg => q \in plugins
                /\ \A q \in plugins : q.name # Top.arg => q \in plugins'
                /\ UNCHANGED event_handlers]_vars

\* p1 was loaded from dir1 and again from dir2, each load subscribing the same
\* function to the init event: the table holds p1 once, with dir2, and the
\* dispatch of the init event has invoked the function twice.
C34_Witness ==
    /\ plugins = {Plugin("p1", "dir2")}
    /\ last.op = "fire_event"
    /\ ~last.raised
    /\ Len(last.invoked) = 2
    /\ last.invoked[1] = last.invoked[2]
    /\ last.invoked[1].plugin = "p1"
    /\ last.invoked[1].cb.owner = "p1"

\* No request is on its way: the channel is empty, no deadline is set and no
\* job waits for the editor.
BlameQuiescent == term.channel = <<>> /\ ~term.deadline /\ term.jobs = <<>>

\* C35: when inline-blame auto-fetch goes from off to on, blame is requested
\* for all open documents that have a path, and each of them gets its file
\* blame computed: once the handler has nothing left to do, every requested
\* document that is still open has a file blame.
C35_AllRequestedBlamed ==
    BlameQuiescent =>
       \A d \in term.requested :
          term.docs[d].state = "open" => term.docs[d].file_blame # Nil

\* C36: space reservation and rendering of plugin annotations agree: for the
\* same line, annotation list, line-end column and viewport width, the
\* virtual rows insert_virtual_lines reserves are as many as the virtual rows
\* render_virt_lines reports as drawn, and both take the same drop-all
\* decision for the inline annotations.
C36_ReservedEqualsDrawn ==
    (term.view.reserved.done /\ term.view.drawn.done) =>
       /\ term.view.reserved.rows = term.view.drawn.rows
       /\ term.view.reserved.drop_all = term.view.drawn.drop_all

\* C37: the virtual-line annotations of a line that have no explicit
\* virt_line_idx get consecutive row indices from (largest explicit index + 1)
\* on, in input order, whatever explicit index in the 16-bit range is present:
\* the computation does not overflow, and an auto-assigned row shares its
\* index with no explicit row and no other auto-assigned row.
C37_AutoRowsDistinct ==
    term.view.reserved.done =>
       LET virt == SelectSeq(term.view.annots, LAMBDA a : a.is_line)
           idx == term.view.reserved.row_idx
           explicit == {virt[j].virt_line_idx : j \in 1..Len(virt)} \ {-1}
           largest == IF explicit = {} THEN -1
                      ELSE CHOOSE m \in explicit : \A x \in explicit : x <= m
           AutoBefore(i) == Cardinality({j \in 1..(i - 1) : virt[j].virt_line_idx = -1})
       IN  /\ ~term.view.reserved.overflow
           /\ \A i \in 1..Len(virt) :
                 virt[i].virt_line_idx = -1 =>
                    /\ idx[i] = largest + 1 + AutoBefore(i)
                    /\ \A j \in 1..Len(virt) : j # i => idx[j] # idx[i]

====
